---- MODULE Spec2Model ----
(***************************************************************************)
(* Probability-and-expected-value estimation engine of ProyectoA.          *)
(*                                                                         *)
(* A DataFrame is a record [columns, rows]: columns is the set of column   *)
(* names and rows a sequence of functions from column name to cell.  A     *)
(* statistic cell is a record [k, v]: k = "num" (a number v), "null"       *)
(* (NaN / None) or "str" (a present value that pd.to_numeric cannot        *)
(* convert).  LOCATION and MATCHUP cells are strings.  Floats are exact    *)
(* rationals <<numerator, denominator>> with a positive denominator.       *)
(* np_random is the state of numpy's global generator: the stream seq it   *)
(* yields after np.random.seed and the number pos of draws already taken.  *)
(***************************************************************************)
EXTENDS Integers, Sequences, FiniteSets, TLC

VARIABLES pc, df, stats, call, ret, locals, np_random

vars == <<pc, df, stats, call, ret, locals, np_random>>

\* ---------------------------------------------------------------- bounds
MaxRows == 2

MaxVal == 2

\* ------------------------------------------------------------- rationals
RECURSIVE GCD(_, _)
GCD(a, b) == IF b = 0 THEN a ELSE GCD(b, a % b)

Abs(n) == IF n < 0 THEN -n ELSE n

\* n / d in lowest terms, d > 0
Rat(n, d) == LET g == GCD(Abs(n), d) IN <<n \div g, d \div g>>

Zero == Rat(0, 1)

One == Rat(1, 1)

RNum(r) == r[1]

RDen(r) == r[2]

RAdd(a, b) == Rat(a[1] * b[2] + b[1] * a[2], a[2] * b[2])

RSub(a, b) == Rat(a[1] * b[2] - b[1] * a[2], a[2] * b[2])

RMul(a, b) == Rat(a[1] * b[1], a[2] * b[2])

\* a / b for b > 0
RDiv(a, b) == Rat(a[1] * b[2], a[2] * b[1])

REq(a, b) == a[1] * b[2] = b[1] * a[2]

RLt(a, b) == a[1] * b[2] < b[1] * a[2]

RGt(a, b) == RLt(b, a)

RLe(a, b) == ~RLt(b, a)

\* round(x, 2).  A value that lies exactly half-way between two hundredths
\* goes to either neighbour: which one depends on the binary float that
\* stands for x.
Round2Set(x) ==
    LET n == x[1] * 100
        d == x[2]
        q == n \div d
        r == n - q * d
    IN IF 2 * r < d THEN {Rat(q, 100)}
       ELSE IF 2 * r > d THEN {Rat(q + 1, 100)}
       ELSE {Rat(q, 100), Rat(q + 1, 100)}

\* ------------------------------------------------------------ data model
Num(v) == [k |-> "num", v |-> v]

Null == [k |-> "null", v |-> 0]

Str == [k |-> "str", v |-> 0]

TODOS == "Todos los partidos"

SOLO_LOCAL == "Solo Local"

SOLO_VISITANTE == "Solo Visitante"

Filtros == {TODOS, SOLO_LOCAL, SOLO_VISITANTE}

MATCHUP_HOME == "BOS vs. LAL"

MATCHUP_AWAY == "BOS @ LAL"

\* '@' in x, over the MATCHUP strings of the model
ContainsAt(x) == x = MATCHUP_AWAY

\* the list of bet_calculator.py:128-129
ColumnasAcumulativas ==
    {"PTS", "AST", "REB", "STL", "BLK", "TOV", "FG3M",
     "PTS_AST", "PTS_REB", "AST_REB", "PTS_AST_REB", "STL_BLK"}

EmptyDF == [columns |-> {}, rows |-> << >>]

\* df.empty: no rows or no columns
DfEmpty(d) == Len(d.rows) = 0 \/ d.columns = {}

\* df[df[col] == value]
WhereEq(d, col, value) == [d EXCEPT !.rows = SelectSeq(d.rows, LAMBDA r : r[col] = value)]

\* Series.fillna(0)
FillNa0(c) == IF c.k = "null" THEN Num(0) ELSE c

\* df[col] = df[col].fillna(0)
FillNaColumn(d, col) ==
    [d EXCEPT !.rows = [i \in DOMAIN d.rows |-> [d.rows[i] EXCEPT ![col] = FillNa0(@)]]]

\* pd.to_numeric(errors='coerce'): what cannot be converted becomes NaN
ToNumericCoerce(c) == IF c.k = "str" THEN Null ELSE c

\* df[col] = pd.to_numeric(df[col], errors='coerce')
ToNumericColumn(d, col) ==
    [d EXCEPT !.rows = [i \in DOMAIN d.rows |-> [d.rows[i] EXCEPT ![col] = ToNumericCoerce(@)]]]

\* df.dropna(subset=[col])
DropNa(d, col) == [d EXCEPT !.rows = SelectSeq(d.rows, LAMBDA r : r[col].k # "null")]

\* df['LOCATION'] = df['MATCHUP'].apply(lambda x: 'Home' if '@' not in x else 'Away')
AddLocation(d) ==
    [columns |-> d.columns \cup {"LOCATION"},
     rows |-> [i \in DOMAIN d.rows |->
                 [c \in d.columns \cup {"LOCATION"} |->
                    IF c = "LOCATION"
                    THEN (IF ~ContainsAt(d.rows[i]["MATCHUP"]) THEN "Home" ELSE "Away")
                    ELSE d.rows[i][c]]]]

\* ------------------------------------- calcular_probabilidad_historica
Triple(p, v, t) ==
    [kind |-> "triple", probabilidad |-> p, veces_cumplido |-> v, total_partidos |-> t]

\* return 0.0, 0, 0
ZeroResult == Triple(Zero, 0, 0)

\* the LOCATION value kept by the filter (line 114-115)
LocationBuscada_inv(filtro_local) == IF filtro_local = SOLO_LOCAL THEN "Away" ELSE "Home"

LocationBuscada(filtro_local) == IF filtro_local = SOLO_LOCAL THEN "Home" ELSE "Away"

\* df[df['LOCATION'] == ('Home' if es_local else 'Away')]
FiltrarLocation(d, filtro_local) == WhereEq(d, "LOCATION", LocationBuscada(filtro_local))

\* the comparison of lines 161-164, with >= and <= in place of > and <
Cumple_inclusive(v, umbral, es_over) == IF es_over THEN v >= umbral ELSE v <= umbral

\* valores > umbral  /  valores < umbral
Cumple(v, umbral, es_over) == IF es_over THEN v > umbral ELSE v < umbral

\* a percentage in place of a fraction
Probabilidad_pct(veces_cumplido, total_partidos) ==
    IF total_partidos > 0 THEN Rat(veces_cumplido * 100, total_partidos) ELSE Zero

\* veces_cumplido / total_partidos if total_partidos > 0 else 0.0
Probabilidad(veces_cumplido, total_partidos) ==
    IF total_partidos > 0 THEN Rat(veces_cumplido, total_partidos) ELSE Zero

\* lines 128-132 with every field zero-filled
RellenarNulos_all(d, columna) == FillNaColumn(d, columna)

\* lines 128-132: zero-fill a counting field, drop the nulls of any other
RellenarNulos(d, columna) ==
    IF columna \in ColumnasAcumulativas
    THEN FillNaColumn(d, columna)
    ELSE DropNa(d, columna)

\* lines 136-137: df[columna] = pd.to_numeric(...); df = df.dropna(subset=[columna])
ConvertirNumerico(d, columna) == DropNa(ToNumericColumn(d, columna), columna)

\* number of positions of a sequence of numbers that satisfy the bet
RECURSIVE ContarCumple(_, _, _)
ContarCumple(valores, umbral, es_over) ==
    IF valores = << >> THEN 0
    ELSE (IF Cumple(Head(valores), umbral, es_over) THEN 1 ELSE 0)
         + ContarCumple(Tail(valores), umbral, es_over)

\* The whole function.  d is the caller's DataFrame; the result carries the
\* returned triple, the caller's DataFrame as the call leaves it, and the
\* local Series valores (<< >> on the paths that return before line 150).
calcular_probabilidad_historica(d, columna, umbral, es_over, filtro_local) ==
    LET early(dfc) == [ret |-> ZeroResult, df |-> dfc, valores |-> << >>, muestra |-> << >>]
    IN
    IF DfEmpty(d) THEN early(d)
    ELSE
    LET \* lines 108-111: LOCATION is added to the caller's object
        crea == filtro_local # TODOS /\ "LOCATION" \notin d.columns /\ "MATCHUP" \in d.columns
        d1 == IF crea THEN AddLocation(d) ELSE d
        \* lines 113-115: the filtered frame is a new object
        filtra == filtro_local # TODOS /\ "LOCATION" \in d1.columns
        d2 == IF filtra THEN FiltrarLocation(d1, filtro_local) ELSE d1
    IN
    IF filtra /\ DfEmpty(d2) THEN early(d1)
    ELSE IF columna \notin d2.columns THEN early(d1)
    ELSE
    LET \* lines 128-132: fillna assigns into the current object, dropna rebinds
        d3 == RellenarNulos(d2, columna)
        alias3 == ~filtra /\ columna \in ColumnasAcumulativas
        \* lines 136-137: the assignment hits the current object, dropna rebinds
        d4assign == ToNumericColumn(d3, columna)
        d4 == ConvertirNumerico(d3, columna)
        caller == IF filtra THEN d1
                  ELSE IF alias3 THEN d4assign
                  ELSE d1
        \* lines 150-151
        valores == [i \in DOMAIN d4.rows |-> d4.rows[i][columna].v]
    IN
    \* lines 143-147: float(umbral)
    IF umbral.k # "num" THEN early(caller)
    ELSE
    LET total_partidos == Len(valores)
    IN
    IF total_partidos = 0
    THEN [ret |-> ZeroResult, df |-> caller, valores |-> valores, muestra |-> d4.rows]
    ELSE
    LET veces_cumplido == ContarCumple(valores, umbral.v, es_over)
    IN [ret |-> Triple(Probabilidad(veces_cumplido, total_partidos),
                       veces_cumplido, total_partidos),
        df |-> caller, valores |-> valores, muestra |-> d4.rows]

\* --------------------------------------------------- the record tables
StatCols == {"PTS", "FG_PCT"}

Cells == {Num(v) : v \in 0..MaxVal} \cup {Null, Str}

LocConfigs == {{}, {"LOCATION"}, {"MATCHUP"}, {"LOCATION", "MATCHUP"}}

\* one game: home or away, and the value of the statistic
MkRow(cols, statcol, home, cell) ==
    [c \in cols |->
        IF c = "LOCATION" THEN (IF home THEN "Home" ELSE "Away")
        ELSE IF c = "MATCHUP" THEN (IF home THEN MATCHUP_HOME ELSE MATCHUP_AWAY)
        ELSE cell]

Games == BOOLEAN \X Cells

GameSeqs == UNION {[1..n -> Games] : n \in 0..MaxRows}

MkDF(loccols, statcol, games) ==
    [columns |-> loccols \cup {statcol},
     rows |-> [i \in DOMAIN games |->
                 MkRow(loccols \cup {statcol}, statcol, games[i][1], games[i][2])]]

DataFrames ==
    {MkDF(lc, sc, g) : lc \in LocConfigs, sc \in StatCols, g \in GameSeqs}
    \cup {EmptyDF}

Umbrales == {Num(v) : v \in 0..MaxVal} \cup {Str}

NoStats == [roster |-> << >>, logs |-> << >>, respuesta |-> << >>]

NoCall == [op |-> "none"]

NoRet == [kind |-> "none"]

NoLocals == [valores |-> << >>, muestra |-> << >>]

\* the global generator where no draw is followed
NoRng == [seq |-> << >>, pos |-> 0]

\* ------------------------------------------ specification SpecHist
InitHist ==
    /\ pc = "ready"
    /\ df \in DataFrames
    /\ stats = NoStats
    /\ call = NoCall
    /\ ret = NoRet
    /\ locals = NoLocals
    /\ np_random = NoRng

CalcularProbabilidadHistorica ==
    /\ pc = "ready"
    /\ \E columna \in StatCols, umbral \in Umbrales, es_over \in BOOLEAN,
          filtro_local \in Filtros :
         LET r == calcular_probabilidad_historica(df, columna, umbral, es_over, filtro_local)
         IN /\ call' = [op |-> "calcular_probabilidad_historica", df |-> df,
                        columna |-> columna, umbral |-> umbral, es_over |-> es_over,
                        filtro_local |-> filtro_local]
            /\ ret' = r.ret
            /\ df' = r.df
            /\ locals' = [valores |-> r.valores, muestra |-> r.muestra]
    /\ pc' = "done"
    /\ UNCHANGED <<stats, np_random>>

NextHist == CalcularProbabilidadHistorica

SpecHist == InitHist /\ [][NextHist]_vars

\* ----------------------------------------- expected-value calculation
Raise(exc) == [kind |-> "raise", exc |-> exc]

\* 1 / cuota, for cuota > 0
calcular_probabilidad_implicita(cuota) == RDiv(One, cuota)

\* monto * (cuota - 1)
GananciaPotencial(cuota, monto) == RMul(monto, RSub(cuota, One))

\* line 39 with the stake left out of the losing term
ValorEsperadoMonto_sin_monto(cuota, prob_real, monto) ==
    RSub(RMul(prob_real, GananciaPotencial(cuota, monto)), RSub(One, prob_real))

\* (prob_real * ganancia_potencial) - ((1 - prob_real) * monto)
ValorEsperadoMonto(cuota, prob_real, monto) ==
    RSub(RMul(prob_real, GananciaPotencial(cuota, monto)),
         RMul(RSub(One, prob_real), monto))

\* ((prob - prob_implicita) / prob_implicita) * 100
PorcentajeValor(prob, prob_implicita) ==
    RMul(RDiv(RSub(prob, prob_implicita), prob_implicita), Rat(100, 1))

\* The whole function: the set of (returned dict, locals before rounding)
\* it can produce.
calcular_valor_esperado(cuota, prob_real, monto) ==
    IF RNum(cuota) = 0
    THEN {[ret |-> Raise("ZeroDivisionError"), locals |-> [op |-> "none"]]}
    ELSE
    LET prob_implicita == calcular_probabilidad_implicita(cuota)
        ganancia_potencial == GananciaPotencial(cuota, monto)
        valor_esperado == ValorEsperadoMonto(cuota, prob_real, monto)
        porcentaje_valor == PorcentajeValor(prob_real, prob_implicita)
    IN {[ret |-> [kind |-> "dict",
                  valor_esperado |-> ve,
                  ganancia_potencial |-> gp,
                  prob_implicita |-> pim,
                  prob_real |-> pr,
                  porcentaje_valor |-> pv],
         locals |-> [op |-> "calcular_valor_esperado",
                     prob_implicita |-> prob_implicita,
                     ganancia_potencial |-> ganancia_potencial,
                     valor_esperado |-> valor_esperado,
                     porcentaje_valor |-> porcentaje_valor]] :
           ve \in Round2Set(valor_esperado),
           gp \in Round2Set(ganancia_potencial),
           pim \in Round2Set(RMul(prob_implicita, Rat(100, 1))),
           pr \in Round2Set(RMul(prob_real, Rat(100, 1))),
           pv \in Round2Set(porcentaje_valor)}

\* --------------------------------------------------------------- strings
\* A str is a sequence of characters; an accented letter is one character
\* ("e-acute").  LOWERS and UPPERS are aligned; CODEPOINTS lists the
\* characters of the model in code point order.
LOWERS ==
    <<"a", "b", "c", "d", "e", "f", "g", "h", "i", "j", "k", "l", "m",
      "n", "o", "p", "q", "r", "s", "t", "u", "v", "w", "x", "y", "z",
      "a-acute", "e-acute", "o-acute">>

UPPERS ==
    <<"A", "B", "C", "D", "E", "F", "G", "H", "I", "J", "K", "L", "M",
      "N", "O", "P", "Q", "R", "S", "T", "U", "V", "W", "X", "Y", "Z",
      "A-ACUTE", "E-ACUTE", "O-ACUTE">>

CODEPOINTS ==
    <<" ", "&", "+", ",", ".", "3", "@", "A", "B", "C", "D", "E", "F",
      "G", "H", "I", "J", "K", "L", "M", "N", "O", "P", "Q", "R", "S",
      "T", "U", "V", "W", "X", "Y", "Z", "_", "a", "b", "c", "d", "e",
      "f", "g", "h", "i", "j", "k", "l", "m", "n", "o", "p", "q", "r",
      "s", "t", "u", "v", "w", "x", "y", "z", "A-ACUTE", "E-ACUTE", "O-ACUTE", "a-acute", "e-acute",
      "o-acute">>

IndexOf(s, c) == IF \E i \in DOMAIN s : s[i] = c THEN CHOOSE i \in DOMAIN s : s[i] = c ELSE 0

LowerOf == [c \in {UPPERS[i] : i \in DOMAIN UPPERS} |-> LOWERS[IndexOf(UPPERS, c)]]

UpperOf == [c \in {LOWERS[i] : i \in DOMAIN LOWERS} |-> UPPERS[IndexOf(LOWERS, c)]]

CodePoint == [c \in {CODEPOINTS[i] : i \in DOMAIN CODEPOINTS} |-> IndexOf(CODEPOINTS, c)]

LowerChar(c) == IF c \in DOMAIN LowerOf THEN LowerOf[c] ELSE c

UpperChar(c) == IF c \in DOMAIN UpperOf THEN UpperOf[c] ELSE c

\* str.lower()
StrLower(s) == [i \in DOMAIN s |-> LowerChar(s[i])]

\* str.upper()
StrUpper(s) == [i \in DOMAIN s |-> UpperChar(s[i])]

IsPrefix(p, s) == Len(p) <= Len(s) /\ SubSeq(s, 1, Len(p)) = p

\* str.replace(old, new), old not empty
RECURSIVE StrReplace(_, _, _)
StrReplace(s, old, new) ==
    IF s = << >> THEN << >>
    ELSE IF IsPrefix(old, s)
         THEN new \o StrReplace(SubSeq(s, Len(old) + 1, Len(s)), old, new)
         ELSE <<Head(s)>> \o StrReplace(Tail(s), old, new)

RECURSIVE LStrip(_)
LStrip(s) == IF s # << >> /\ Head(s) = " " THEN LStrip(Tail(s)) ELSE s

RECURSIVE RStrip(_)
RStrip(s) ==
    IF s # << >> /\ s[Len(s)] = " " THEN RStrip(SubSeq(s, 1, Len(s) - 1)) ELSE s

\* str.strip()
StrStrip(s) == RStrip(LStrip(s))

\* sub in s
StrContains(sub, s) ==
    \E i \in 0..(Len(s) - Len(sub)) : SubSeq(s, i + 1, i + Len(sub)) = sub

\* a < b for str
RECURSIVE StrLess(_, _)
StrLess(a, b) ==
    IF b = << >> THEN FALSE
    ELSE IF a = << >> THEN TRUE
    ELSE IF Head(a) = Head(b) THEN StrLess(Tail(a), Tail(b))
    ELSE CodePoint[Head(a)] < CodePoint[Head(b)]

\* sorted(set of str)
RECURSIVE SortedStrs(_)
SortedStrs(S) ==
    IF S = {} THEN << >>
    ELSE LET m == CHOOSE x \in S : \A y \in S \ {x} : StrLess(x, y)
         IN <<m>> \o SortedStrs(S \ {m})

RECURSIVE SumSeq(_)
SumSeq(s) == IF s = << >> THEN 0 ELSE Head(s) + SumSeq(Tail(s))

\* dict.get over a sequence of <<key, value>> pairs; "" stands for None
DictGet(pairs, key) ==
    IF \E i \in DOMAIN pairs : pairs[i][1] = key
    THEN pairs[CHOOSE i \in DOMAIN pairs : pairs[i][1] = key][2]
    ELSE ""

DictHas(pairs, key) == \E i \in DOMAIN pairs : pairs[i][1] = key

\* ------------------------------------------------- the stats provider
REGULAR_SEASON == "Regular Season"

PLAYOFFS == "Playoffs"

Tipos == {REGULAR_SEASON, PLAYOFFS}

EQUIPO == <<"B", "o", "s", "t", "o", "n", " ", "C", "e", "l", "t", "i", "c", "s">>

TATUM == <<"J", "a", "y", "s", "o", "n", " ", "T", "a", "t", "u", "m">>

\* NBAStats.obtener_estadisticas_jugadores_equipo: the roster table of the
\* team for one season type, empty for a team the provider does not know
obtener_estadisticas_jugadores_equipo(st, equipo, tipo_temporada) ==
    IF equipo = EQUIPO THEN st.roster[tipo_temporada] ELSE EmptyDF

\* how _make_request ends for the game log of a season type: with the
\* payload that holds the table, with a payload without 'resultSets', with a
\* payload whose result set lacks its rows, or with the exception of line 145
RESPUESTA_OK == "ok"

Respuestas == {RESPUESTA_OK, "sin_resultSets", "malformada", "error"}

TodasOk == [t \in Tipos |-> RESPUESTA_OK]

\* NBAStats.get_player_game_logs: the game log of the player for one season
\* type; the empty DataFrame when the request fails or has no data
get_player_game_logs(st, player_id, season_type) ==
    LET data == st.respuesta[season_type]
    IN IF data = "error" THEN EmptyDF                    \* lines 640-642
       ELSE IF data = "sin_resultSets" THEN EmptyDF      \* lines 627-629
       ELSE IF data = "malformada" THEN EmptyDF          \* KeyError, lines 640-642
       ELSE st.logs[season_type]

\* ------------------------------------------- BayesianPropPredictor
NSims == 2

prop_mapping ==
    << <<<<"P", "u", "n", "t", "o", "s">>, "PTS">>,
       <<<<"A", "s", "i", "s", "t", "e", "n", "c", "i", "a", "s">>, "AST">>,
       <<<<"R", "e", "b", "o", "t", "e", "s">>, "REB">>,
       <<<<"T", "r", "i", "p", "l", "e", "s">>, "FG3M">>,
       <<<<"R", "o", "b", "o", "s">>, "STL">>,
       <<<<"T", "a", "p", "o", "n", "e", "s">>, "BLK">>,
       <<<<"P", "e-acute", "r", "d", "i", "d", "a", "s">>, "TOV">> >>

NumR(r) == [k |-> "num", r |-> r]

\* something that is no int and no float
NoNum == [k |-> "str", r |-> Zero]

\* _validar_entrada: TRUE when it raises ValueError
ValidarEntradaFalla(equipo, jugador, tipo_prop, linea) ==
    \/ equipo = << >>
    \/ jugador = << >>
    \/ ~DictHas(prop_mapping, tipo_prop)
    \/ linea.k # "num"
    \/ linea.v < 0

\* not isinstance(cuota, (int, float)) or cuota <= 1
CuotaInvalida(cuota) == cuota.k # "num" \/ RLe(cuota.r, One)

\* line 106 with the bound off by one
PocosPartidos_uno(datos_prop) == Len(datos_prop) < 1

\* len(datos_prop) < 2
PocosPartidos(datos_prop) == Len(datos_prop) < 2

\* _obtener_datos_historicos: Raise(..) or [kind |-> "series", valores |-> ..]
obtener_datos_historicos(st, equipo, jugador, tipo_prop) ==
    LET datos_generales0 == obtener_estadisticas_jugadores_equipo(st, equipo, REGULAR_SEASON)
    IN
    IF DfEmpty(datos_generales0) THEN Raise("ValueError")
    ELSE IF "PLAYER_NAME" \notin datos_generales0.columns THEN Raise("KeyError")
    ELSE
    LET datos_generales ==
            [datos_generales0 EXCEPT !.rows =
                [i \in DOMAIN @ |-> [@[i] EXCEPT !["PLAYER_NAME"] = StrStrip(@)]]]
        datos_jugador == WhereEq(datos_generales, "PLAYER_NAME", jugador)
    IN
    IF DfEmpty(datos_jugador) THEN Raise("ValueError")
    ELSE IF "PLAYER_ID" \notin datos_jugador.columns THEN Raise("ValueError")
    ELSE
    LET player_id == datos_jugador.rows[1]["PLAYER_ID"]
        datos_partidos == get_player_game_logs(st, player_id, REGULAR_SEASON)
        columna == DictGet(prop_mapping, tipo_prop)
    IN
    IF DfEmpty(datos_partidos) THEN Raise("ValueError")
    ELSE IF columna = "" THEN Raise("ValueError")
    ELSE IF columna \notin datos_partidos.columns THEN Raise("ValueError")
    ELSE
    LET conv == DropNa(ToNumericColumn(datos_partidos, columna), columna)
        datos_prop == [i \in DOMAIN conv.rows |-> conv.rows[i][columna].v]
    IN
    IF Len(datos_prop) = 0 THEN Raise("ValueError")
    ELSE IF PocosPartidos(datos_prop) THEN Raise("ValueError")
    ELSE [kind |-> "series", valores |-> datos_prop]

\* datos.mean()
Mean(valores) == Rat(SumSeq(valores), Len(valores))

\* datos.std() squared: the sample variance, for two values or more
Var(valores) ==
    LET m == Mean(valores)
        sq(i) == RMul(RSub(Rat(valores[i], 1), m), RSub(Rat(valores[i], 1), m))
        RECURSIVE acc(_)
        acc(i) == IF i = 0 THEN Zero ELSE RAdd(sq(i), acc(i - 1))
    IN RDiv(acc(Len(valores)), Rat(Len(valores) - 1, 1))

\* the support [0, media + 4*std] of the truncated normal, std = 0.1 when
\* datos.std() is 0
EnSoporte(x, datos) ==
    LET media == Mean(datos)
        var == IF RNum(Var(datos)) = 0 THEN Rat(1, 100) ELSE Var(datos)
        dif == RSub(Rat(x, 1), media)
    IN /\ x >= 0
       /\ (RLe(dif, Zero) \/ RLe(RMul(dif, dif), RMul(Rat(16, 1), var)))

\* the values a draw is taken from
SimValues == 0..(MaxVal + 1)

\* np.random.seed(seed): the generator restarts its stream
np_random_seed(rng) == [rng EXCEPT !.pos = 0]

\* truncnorm(..).ppf(u) on the values of the support: a uniform of the
\* lower half gives the least value, one of the upper half the greatest
Ppf(u, datos) ==
    LET S == {x \in SimValues : EnSoporte(x, datos)}
    IN IF u THEN CHOOSE x \in S : \A y \in S : y <= x
       ELSE CHOOSE x \in S : \A y \in S : x <= y

\* rv_frozen.rvs(size) with random_state=None: the uniforms are the next
\* size draws of the global generator, which moves on by size
truncnorm_rvs(rng, datos, size) ==
    [valores |-> [i \in 1..size |-> Ppf(rng.seq[rng.pos + i], datos)],
     rng |-> [rng EXCEPT !.pos = @ + size]]

\* len(datos) < 2
PocosDatos(datos) == Len(datos) < 2

\* _simular_valores with the global generator in state rng: what it returns
\* or raises, and the state it leaves the generator in
simular_valores(rng, datos) ==
    IF PocosDatos(datos) THEN [ret |-> Raise("ValueError"), rng |-> rng]
    ELSE LET sorteo == truncnorm_rvs(rng, datos, NSims)
         IN [ret |-> [kind |-> "array", valores |-> sorteo.valores], rng |-> sorteo.rng]

\* (prob * ganancia_potencial) - ((1 - prob) * 1)
ValorEsperadoApuesta(prob, cuota) ==
    RSub(RMul(prob, RSub(cuota, One)), RMul(RSub(One, prob), One))

\* (prob * cuota - 1) / (cuota - 1) if cuota > 1 else 0
Kelly(prob, cuota) ==
    IF RGt(cuota, One)
    THEN RDiv(RSub(RMul(prob, cuota), One), RSub(cuota, One))
    ELSE Zero

\* (simulaciones > linea).mean()  /  (simulaciones < linea).mean()
ProbSimulada(simulaciones, linea, es_over) ==
    Rat(Cardinality({i \in DOMAIN simulaciones :
                        IF es_over THEN simulaciones[i] > linea
                        ELSE simulaciones[i] < linea}),
        Len(simulaciones))

\* lines 182-229: the result dict for the draws sim has, or its error
AnalizarSimulaciones(sim, datos, linea, cuota, es_over) ==
    IF sim.ret.kind = "raise" THEN sim
    ELSE
    LET prob == ProbSimulada(sim.ret.valores, linea.v, es_over)
        prob_implicita == RDiv(One, cuota.r)
    IN [ret |-> [kind |-> "dict",
                 probabilidad |-> prob,
                 valor_esperado_stat |-> Mean(sim.ret.valores),
                 simulaciones |-> sim.ret.valores,
                 n_simulaciones |-> Len(sim.ret.valores),
                 datos_historicos |-> [media |-> Mean(datos.valores),
                                       n_registros |-> Len(datos.valores)],
                 metricas_apuesta |-> [cuota |-> cuota.r,
                                       prob_implicita |-> prob_implicita,
                                       ganancia_potencial |-> RSub(cuota.r, One),
                                       valor_esperado |-> ValorEsperadoApuesta(prob, cuota.r),
                                       porcentaje_valor |-> PorcentajeValor(prob, prob_implicita),
                                       kelly |-> Kelly(prob, cuota.r)]],
        rng |-> sim.rng]

\* lines 177-180: the error of _obtener_datos_historicos goes on to the
\* caller, its series goes to _simular_valores
AnalizarDatos(rng, datos, linea, cuota, es_over) ==
    IF datos.kind = "raise" THEN [ret |-> datos, rng |-> rng]
    ELSE AnalizarSimulaciones(simular_valores(rng, datos.valores), datos, linea, cuota,
                              es_over)

\* analizar_prop with the global generator in state rng: the result dict or
\* the error raised, and the state it leaves the generator in
analizar_prop(st, rng, equipo, jugador, tipo_prop, linea, cuota, es_over) ==
    IF ValidarEntradaFalla(equipo, jugador, tipo_prop, linea)
    THEN [ret |-> Raise("ValueError"), rng |-> rng]
    ELSE IF CuotaInvalida(cuota) THEN [ret |-> Raise("ValueError"), rng |-> rng]
    ELSE AnalizarDatos(rng, obtener_datos_historicos(st, equipo, jugador, tipo_prop),
                       linea, cuota, es_over)

\* ------------------------------------------------- evaluar_prop_bet
\* name.lower().replace('.', '').strip()
normalize_name(name) == StrStrip(StrReplace(StrLower(name), <<".">>, << >>))

\* _find_matching_player; << >> stands for None
find_matching_player(jugadores_disponibles, jugador_buscado) ==
    LET jugador_norm == normalize_name(jugador_buscado)
        exacta == {i \in DOMAIN jugadores_disponibles :
                     normalize_name(jugadores_disponibles[i]) = jugador_norm}
        parcial == {i \in DOMAIN jugadores_disponibles :
                      \/ StrContains(jugador_norm, normalize_name(jugadores_disponibles[i]))
                      \/ StrContains(normalize_name(jugadores_disponibles[i]), jugador_norm)}
        primero(I) == CHOOSE i \in I : \A j \in I : i <= j
    IN IF exacta # {} THEN jugadores_disponibles[primero(exacta)]
       ELSE IF parcial # {} THEN jugadores_disponibles[primero(parcial)]
       ELSE << >>

\* the dict of lines 365-448, in insertion order
stat_mapping ==
    << <<<<"P", "u", "n", "t", "o", "s">>, "PTS">>,
       <<<<"A", "s", "i", "s", "t", "e", "n", "c", "i", "a", "s">>, "AST">>,
       <<<<"R", "e", "b", "o", "t", "e", "s">>, "REB">>,
       <<<<"T", "r", "i", "p", "l", "e", "s">>, "FG3M">>,
       <<<<"R", "o", "b", "o", "s">>, "STL">>,
       <<<<"T", "a", "p", "o", "n", "e", "s">>, "BLK">>,
       <<<<"B", "l", "o", "q", "u", "e", "o", "s">>, "BLK">>,
       <<<<"P", "e-acute", "r", "d", "i", "d", "a", "s">>, "TOV">>,
       <<<<"P", "e-acute", "r", "d", "i", "d", "a", "s", " ", "d", "e", " ", "b", "a", "l", "o-acute", "n">>, "TOV">>,
       <<<<"P", "u", "n", "t", "o", "s", " ", "+", " ", "A", "s", "i", "s", "t", "e", "n", "c", "i", "a", "s">>, "PTS_AST">>,
       <<<<"P", "u", "n", "t", "o", "s", " ", "y", " ", "A", "s", "i", "s", "t", "e", "n", "c", "i", "a", "s">>, "PTS_AST">>,
       <<<<"P", "u", "n", "t", "o", "s", " ", "m", "a-acute", "s", " ", "A", "s", "i", "s", "t", "e", "n", "c", "i", "a", "s">>, "PTS_AST">>,
       <<<<"P", "u", "n", "t", "o", "s", " ", "+", " ", "R", "e", "b", "o", "t", "e", "s">>, "PTS_REB">>,
       <<<<"P", "u", "n", "t", "o", "s", " ", "y", " ", "R", "e", "b", "o", "t", "e", "s">>, "PTS_REB">>,
       <<<<"P", "u", "n", "t", "o", "s", " ", "m", "a-acute", "s", " ", "R", "e", "b", "o", "t", "e", "s">>, "PTS_REB">>,
       <<<<"A", "s", "i", "s", "t", "e", "n", "c", "i", "a", "s", " ", "+", " ", "R", "e", "b", "o", "t", "e", "s">>, "AST_REB">>,
       <<<<"A", "s", "i", "s", "t", "e", "n", "c", "i", "a", "s", " ", "y", " ", "R", "e", "b", "o", "t", "e", "s">>, "AST_REB">>,
       <<<<"A", "s", "i", "s", "t", "e", "n", "c", "i", "a", "s", " ", "m", "a-acute", "s", " ", "R", "e", "b", "o", "t", "e", "s">>, "AST_REB">>,
       <<<<"P", "u", "n", "t", "o", "s", " ", "+", " ", "A", "s", "i", "s", "t", "e", "n", "c", "i", "a", "s", " ", "+", " ", "R", "e", "b", "o", "t", "e", "s">>, "PTS_AST_REB">>,
       <<<<"P", "u", "n", "t", "o", "s", ",", " ", "A", "s", "i", "s", "t", "e", "n", "c", "i", "a", "s", " ", "y", " ", "R", "e", "b", "o", "t", "e", "s">>, "PTS_AST_REB">>,
       <<<<"P", "u", "n", "t", "o", "s", " ", "m", "a-acute", "s", " ", "A", "s", "i", "s", "t", "e", "n", "c", "i", "a", "s", " ", "m", "a-acute", "s", " ", "R", "e", "b", "o", "t", "e", "s">>, "PTS_AST_REB">>,
       <<<<"T", "a", "p", "o", "n", "e", "s", " ", "+", " ", "R", "o", "b", "o", "s">>, "STL_BLK">>,
       <<<<"T", "a", "p", "o", "n", "e", "s", " ", "y", " ", "R", "o", "b", "o", "s">>, "STL_BLK">>,
       <<<<"T", "a", "p", "o", "n", "e", "s", " ", "m", "a-acute", "s", " ", "R", "o", "b", "o", "s">>, "STL_BLK">>,
       <<<<"B", "l", "o", "q", "u", "e", "o", "s", " ", "+", " ", "R", "o", "b", "o", "s">>, "STL_BLK">>,
       <<<<"B", "l", "o", "q", "u", "e", "o", "s", " ", "y", " ", "R", "o", "b", "o", "s">>, "STL_BLK">>,
       <<<<"B", "l", "o", "q", "u", "e", "o", "s", " ", "m", "a-acute", "s", " ", "R", "o", "b", "o", "s">>, "STL_BLK">>,
       <<<<"P", "o", "i", "n", "t", "s">>, "PTS">>,
       <<<<"A", "s", "s", "i", "s", "t", "s">>, "AST">>,
       <<<<"R", "e", "b", "o", "u", "n", "d", "s">>, "REB">>,
       <<<<"T", "h", "r", "e", "e", "s">>, "FG3M">>,
       <<<<"S", "t", "e", "a", "l", "s">>, "STL">>,
       <<<<"B", "l", "o", "c", "k", "s">>, "BLK">>,
       <<<<"T", "u", "r", "n", "o", "v", "e", "r", "s">>, "TOV">>,
       <<<<"P", "o", "i", "n", "t", "s", " ", "+", " ", "A", "s", "s", "i", "s", "t", "s">>, "PTS_AST">>,
       <<<<"P", "o", "i", "n", "t", "s", " ", "a", "n", "d", " ", "A", "s", "s", "i", "s", "t", "s">>, "PTS_AST">>,
       <<<<"P", "o", "i", "n", "t", "s", " ", "&", " ", "A", "s", "s", "i", "s", "t", "s">>, "PTS_AST">>,
       <<<<"P", "o", "i", "n", "t", "s", " ", "+", " ", "R", "e", "b", "o", "u", "n", "d", "s">>, "PTS_REB">>,
       <<<<"P", "o", "i", "n", "t", "s", " ", "a", "n", "d", " ", "R", "e", "b", "o", "u", "n", "d", "s">>, "PTS_REB">>,
       <<<<"P", "o", "i", "n", "t", "s", " ", "&", " ", "R", "e", "b", "o", "u", "n", "d", "s">>, "PTS_REB">>,
       <<<<"A", "s", "s", "i", "s", "t", "s", " ", "+", " ", "R", "e", "b", "o", "u", "n", "d", "s">>, "AST_REB">>,
       <<<<"A", "s", "s", "i", "s", "t", "s", " ", "a", "n", "d", " ", "R", "e", "b", "o", "u", "n", "d", "s">>, "AST_REB">>,
       <<<<"A", "s", "s", "i", "s", "t", "s", " ", "&", " ", "R", "e", "b", "o", "u", "n", "d", "s">>, "AST_REB">>,
       <<<<"P", "o", "i", "n", "t", "s", " ", "+", " ", "A", "s", "s", "i", "s", "t", "s", " ", "+", " ", "R", "e", "b", "o", "u", "n", "d", "s">>, "PTS_AST_REB">>,
       <<<<"P", "o", "i", "n", "t", "s", ",", " ", "A", "s", "s", "i", "s", "t", "s", " ", "a", "n", "d", " ", "R", "e", "b", "o", "u", "n", "d", "s">>, "PTS_AST_REB">>,
       <<<<"P", "o", "i", "n", "t", "s", ",", " ", "A", "s", "s", "i", "s", "t", "s", " ", "&", " ", "R", "e", "b", "o", "u", "n", "d", "s">>, "PTS_AST_REB">>,
       <<<<"B", "l", "o", "c", "k", "s", " ", "+", " ", "S", "t", "e", "a", "l", "s">>, "STL_BLK">>,
       <<<<"B", "l", "o", "c", "k", "s", " ", "a", "n", "d", " ", "S", "t", "e", "a", "l", "s">>, "STL_BLK">>,
       <<<<"B", "l", "o", "c", "k", "s", " ", "&", " ", "S", "t", "e", "a", "l", "s">>, "STL_BLK">>,
       <<<<"P", "T", "S">>, "PTS">>,
       <<<<"A", "S", "T">>, "AST">>,
       <<<<"R", "E", "B">>, "REB">>,
       <<<<"F", "G", "3", "M">>, "FG3M">>,
       <<<<"S", "T", "L">>, "STL">>,
       <<<<"B", "L", "K">>, "BLK">>,
       <<<<"T", "O", "V">>, "TOV">>,
       <<<<"P", "T", "S", "+", "A", "S", "T">>, "PTS_AST">>,
       <<<<"P", "T", "S", "_", "A", "S", "T">>, "PTS_AST">>,
       <<<<"P", "T", "S", "+", "R", "E", "B">>, "PTS_REB">>,
       <<<<"P", "T", "S", "_", "R", "E", "B">>, "PTS_REB">>,
       <<<<"A", "S", "T", "+", "R", "E", "B">>, "AST_REB">>,
       <<<<"A", "S", "T", "_", "R", "E", "B">>, "AST_REB">>,
       <<<<"P", "T", "S", "+", "A", "S", "T", "+", "R", "E", "B">>, "PTS_AST_REB">>,
       <<<<"P", "T", "S", "_", "A", "S", "T", "_", "R", "E", "B">>, "PTS_AST_REB">>,
       <<<<"S", "T", "L", "+", "B", "L", "K">>, "STL_BLK">>,
       <<<<"S", "T", "L", "_", "B", "L", "K">>, "STL_BLK">> >>

\* _normalize_name(key) of every key of stat_mapping
stat_mapping_norm == [i \in DOMAIN stat_mapping |-> normalize_name(stat_mapping[i][1])]

\* stat_columns.split('_') for the column names that contain '_'
ColSplit ==
    [c \in {"PTS_AST", "PTS_REB", "AST_REB", "PTS_AST_REB", "STL_BLK"} |->
        CASE c = "PTS_AST" -> <<"PTS", "AST">>
          [] c = "PTS_REB" -> <<"PTS", "REB">>
          [] c = "AST_REB" -> <<"AST", "REB">>
          [] c = "PTS_AST_REB" -> <<"PTS", "AST", "REB">>
          [] c = "STL_BLK" -> <<"STL", "BLK">>]

\* prop.replace(' + ', '_').replace('+', '_').replace(' ', '_').upper()
PropNormalizada(prop) ==
    StrUpper(StrReplace(StrReplace(StrReplace(prop, <<" ", "+", " ">>, <<"_">>),
                                   <<"+">>, <<"_">>),
                        <<" ">>, <<"_">>))

\* lines 451-462 with PTS taken when no column is found
ResolverProp_defecto(prop) ==
    LET directa == DictGet(stat_mapping, prop)
        normalizada == DictGet(stat_mapping, PropNormalizada(prop))
        prop_norm == normalize_name(prop)
        parcial == {i \in DOMAIN stat_mapping : stat_mapping_norm[i] = prop_norm}
    IN IF directa # "" THEN directa
       ELSE IF normalizada # "" THEN normalizada
       ELSE IF parcial # {}
            THEN stat_mapping[CHOOSE i \in parcial : \A j \in parcial : i <= j][2]
            ELSE "PTS"

\* lines 451-462: the column of the label, "" when none is found
ResolverProp(prop) ==
    LET directa == DictGet(stat_mapping, prop)
        normalizada == DictGet(stat_mapping, PropNormalizada(prop))
        prop_norm == normalize_name(prop)
        parcial == {i \in DOMAIN stat_mapping : stat_mapping_norm[i] = prop_norm}
    IN IF directa # "" THEN directa
       ELSE IF normalizada # "" THEN normalizada
       ELSE IF parcial # {}
            THEN stat_mapping[CHOOSE i \in parcial : \A j \in parcial : i <= j][2]
            ELSE ""

\* df[col] = value, one value for every row
SetColumn(d, col, value) ==
    [columns |-> d.columns \cup {col},
     rows |-> [i \in DOMAIN d.rows |->
                 [c \in d.columns \cup {col} |->
                    IF c = col THEN value ELSE d.rows[i][c]]]]

\* pd.concat([a, b], ignore_index=True): a cell of a column the frame does
\* not have is NaN
Concat(a, b) ==
    LET cols == a.columns \cup b.columns
        widen(r) == [c \in cols |-> IF c \in DOMAIN r THEN r[c] ELSE Null]
    IN [columns |-> cols,
        rows |-> [i \in DOMAIN a.rows |-> widen(a.rows[i])]
                 \o [i \in DOMAIN b.rows |-> widen(b.rows[i])]]

\* the loops of lines 308-318 and 350-359 run over every season type
\* instead of the ones asked for
AcumularTipos_todos(frames, tipos) ==
    LET a == frames[REGULAR_SEASON]
        b == frames[PLAYOFFS]
        pa == IF DfEmpty(a) THEN EmptyDF
              ELSE Concat(EmptyDF, SetColumn(a, "TIPO_TEMPORADA", REGULAR_SEASON))
    IN IF DfEmpty(b) THEN pa
       ELSE Concat(pa, SetColumn(b, "TIPO_TEMPORADA", PLAYOFFS))

\* the loops of lines 308-318 and 350-359 over the frames fetched per type
RECURSIVE AcumularTipos(_, _)
AcumularTipos(frames, tipos) ==
    IF tipos = << >> THEN EmptyDF
    ELSE LET n == Len(tipos)
             antes == AcumularTipos(frames, SubSeq(tipos, 1, n - 1))
             df_temp == frames[tipos[n]]
         IN IF DfEmpty(df_temp) THEN antes
            ELSE Concat(antes, SetColumn(df_temp, "TIPO_TEMPORADA", tipos[n]))

\* line 476 with only the first base column summed
SumaFila_primera(r, stats_base) ==
    Num(IF r[stats_base[1]].k = "num" THEN r[stats_base[1]].v ELSE 0)

\* df[stats_base].sum(axis=1) of one row: NaN is skipped
SumaFila(r, stats_base) ==
    Num(SumSeq([j \in DOMAIN stats_base |->
                  IF r[stats_base[j]].k = "num" THEN r[stats_base[j]].v ELSE 0]))

\* df[col] = df[stats_base].sum(axis=1)
ColumnaSuma(d, col, stats_base) ==
    [columns |-> d.columns \cup {col},
     rows |-> [i \in DOMAIN d.rows |->
                 [c \in d.columns \cup {col} |->
                    IF c = col THEN SumaFila(d.rows[i], stats_base) ELSE d.rows[i][c]]]]

\* the synthesis with the new sum added to a column that is already there
CrearCombinada_acumula(d, combined_name, base_stats) ==
    LET suma(r) == SumaFila(r, base_stats).v
                   + (IF combined_name \in d.columns /\ r[combined_name].k = "num"
                      THEN r[combined_name].v ELSE 0)
    IN IF \A j \in DOMAIN base_stats : base_stats[j] \in d.columns
       THEN [columns |-> d.columns \cup {combined_name},
             rows |-> [i \in DOMAIN d.rows |->
                         [c \in d.columns \cup {combined_name} |->
                            IF c = combined_name THEN Num(suma(d.rows[i]))
                            ELSE d.rows[i][c]]]]
       ELSE d

\* one round of the loop of create_combined_stats, which is also lines
\* 469-476 of evaluar_prop_bet: the column is created when it is not there
\* and all its base columns are
CrearCombinada(d, combined_name, base_stats) ==
    IF combined_name \notin d.columns
       /\ \A j \in DOMAIN base_stats : base_stats[j] \in d.columns
    THEN ColumnaSuma(d, combined_name, base_stats)
    ELSE d

\* the keys of combined_stats in their order; ColSplit has the base columns
combined_stats == <<"PTS_AST", "PTS_REB", "AST_REB", "PTS_AST_REB", "STL_BLK">>

\* dashboard.create_combined_stats
create_combined_stats(d) ==
    LET RECURSIVE crear(_, _)
        crear(dd, nombres) ==
            IF nombres = << >> THEN dd
            ELSE crear(CrearCombinada(dd, Head(nombres), ColSplit[Head(nombres)]),
                       Tail(nombres))
    IN crear(d, combined_stats)

\* lines 696-728 of obtener_estadisticas_jugador_por_partido: the base
\* columns become numeric with 0 for what is missing, then each composite
\* column that is not there is df[a] + df[b] (+ df[c])
columnas_compuestas(d) ==
    LET columnas_base == <<"PTS", "AST", "REB", "STL", "BLK">>
        RECURSIVE numericas(_, _)
        numericas(dd, cols) ==
            IF cols = << >> THEN dd
            ELSE numericas(IF Head(cols) \in dd.columns
                           THEN FillNaColumn(ToNumericColumn(dd, Head(cols)), Head(cols))
                           ELSE dd,
                           Tail(cols))
        mas(r, bases) ==
            IF \A j \in DOMAIN bases : r[bases[j]].k = "num"
            THEN Num(SumSeq([j \in DOMAIN bases |-> r[bases[j]].v]))
            ELSE Null
        RECURSIVE crear(_, _)
        crear(dd, nombres) ==
            IF nombres = << >> THEN dd
            ELSE LET nombre == Head(nombres)
                     bases == ColSplit[nombre]
                     cols == dd.columns \cup {nombre}
                 IN crear(IF nombre \notin dd.columns
                             /\ \A j \in DOMAIN bases : bases[j] \in dd.columns
                          THEN [columns |-> cols,
                                rows |-> [i \in DOMAIN dd.rows |->
                                            [c \in cols |->
                                               IF c = nombre THEN mas(dd.rows[i], bases)
                                               ELSE dd.rows[i][c]]]]
                          ELSE dd,
                          Tail(nombres))
    IN crear(numericas(d, columnas_base), combined_stats)

\* Series.mean(): NaN is skipped; Zero stands for the NaN of an all-NaN column
MeanColumn(d, col) ==
    LET nums == SelectSeq(d.rows, LAMBDA r : r[col].k = "num")
    IN IF nums = << >> THEN Zero
       ELSE Rat(SumSeq([i \in DOMAIN nums |-> nums[i][col].v]), Len(nums))

\* line 495 without the count of games
DatosInsuficientes_prob(probabilidad, total_partidos) == RNum(probabilidad) = 0

\* probabilidad == 0 and total_partidos == 0
DatosInsuficientes(probabilidad, total_partidos) ==
    RNum(probabilidad) = 0 /\ total_partidos = 0

\* line 503 with the whole payout as the gain
ValorEsperadoUnidad_cuota(probabilidad, cuota) ==
    RSub(RMul(probabilidad, cuota), RMul(RSub(One, probabilidad), One))

\* probabilidad * (cuota - 1) - (1 - probabilidad) * 1
ValorEsperadoUnidad(probabilidad, cuota) ==
    RSub(RMul(probabilidad, RSub(cuota, One)), RMul(RSub(One, probabilidad), One))

\* line 546 with a non-strict comparison
Recomendacion_ge(valor_esperado) ==
    IF ~RLt(valor_esperado, Zero) THEN "APOSTAR" ELSE "NO APOSTAR"

\* 'APOSTAR' if valor_esperado > 0 else 'NO APOSTAR'
Recomendacion(valor_esperado) ==
    IF RGt(valor_esperado, Zero) THEN "APOSTAR" ELSE "NO APOSTAR"

Mensaje(texto) == [kind |-> "mensaje", texto |-> texto]

StrArg(v) == [k |-> "str", v |-> v]

ListArg(v) == [k |-> "list", v |-> v]

\* lines 505-520: one entry per season type that has games
RECURSIVE Desglose(_, _, _, _, _, _)
Desglose(datos_partidos, tipos, stat_columns, umbral, es_over, filtro_local) ==
    IF tipos = << >> THEN << >>
    ELSE LET tipo == Head(tipos)
             df_tipo == WhereEq(datos_partidos, "TIPO_TEMPORADA", tipo)
             r == calcular_probabilidad_historica(df_tipo, stat_columns, umbral,
                                                  es_over, filtro_local)
             resto == Desglose(datos_partidos, Tail(tipos), stat_columns, umbral,
                               es_over, filtro_local)
         IN IF DfEmpty(df_tipo) THEN resto
            ELSE <<[tipo |-> tipo,
                    promedio |-> MeanColumn(df_tipo, stat_columns),
                    cumplido |-> r.ret.veces_cumplido,
                    total |-> r.ret.total_partidos,
                    prob |-> r.ret.probabilidad]>> \o resto

\* line 361 with the check left out
SinPartidos_nunca(datos_partidos) == FALSE

\* if datos_partidos.empty
SinPartidos(datos_partidos) == DfEmpty(datos_partidos)

\* The whole function: the set of (returned text, locals) it can produce.
\* A returned text is a Mensaje or the analysis with its printed fields.
evaluar_prop_bet(st, equipo, jugador, prop, umbral, cuota, tipo_temporada, es_over, filtro_local) ==
    LET fin(r) == {[ret |-> r, locals |-> [op |-> "evaluar_prop_bet", paso |-> r.texto]]}
        tipos_temporada ==
            IF tipo_temporada.k = "list" THEN tipo_temporada.v ELSE <<tipo_temporada.v>>
        df_jugadores0 ==
            AcumularTipos([t \in Tipos |->
                             obtener_estadisticas_jugadores_equipo(st, equipo, t)],
                          tipos_temporada)
    IN
    IF DfEmpty(df_jugadores0) THEN fin(Mensaje("no_hay_datos_equipo"))
    ELSE IF "PLAYER_NAME" \notin df_jugadores0.columns
            \/ "PLAYER_ID" \notin df_jugadores0.columns
    THEN fin(Mensaje("faltan_columnas_jugador"))
    ELSE
    LET df_jugadores ==
            [df_jugadores0 EXCEPT !.rows =
                [i \in DOMAIN @ |-> [@[i] EXCEPT !["PLAYER_NAME"] = StrStrip(@)]]]
        jugadores ==
            SortedStrs({df_jugadores.rows[i]["PLAYER_NAME"] : i \in DOMAIN df_jugadores.rows})
        nombre_encontrado == find_matching_player(jugadores, jugador)
    IN
    IF nombre_encontrado = << >> THEN fin(Mensaje("jugador_no_encontrado"))
    ELSE
    LET datos_jugador == WhereEq(df_jugadores, "PLAYER_NAME", nombre_encontrado)
        player_id == datos_jugador.rows[1]["PLAYER_ID"]
        datos_partidos0 ==
            AcumularTipos([t \in Tipos |-> get_player_game_logs(st, player_id, t)],
                          tipos_temporada)
    IN
    IF SinPartidos(datos_partidos0) THEN fin(Mensaje("no_hay_datos_partidos"))
    ELSE
    LET stat_columns == ResolverProp(prop)
    IN
    IF stat_columns = ""
    THEN {[ret |-> [kind |-> "mensaje", texto |-> "prop_no_encontrada",
                    columnas_disponibles |-> datos_partidos0.columns],
           locals |-> [op |-> "evaluar_prop_bet", paso |-> "prop_no_encontrada"]]}
    ELSE
    LET falta == stat_columns \notin datos_partidos0.columns
        combinada == stat_columns \in DOMAIN ColSplit
        stats_base == IF combinada THEN ColSplit[stat_columns] ELSE << >>
        missing_stats == SelectSeq(stats_base, LAMBDA c : c \notin datos_partidos0.columns)
    IN
    IF falta /\ combinada /\ missing_stats # << >>
    THEN {[ret |-> [kind |-> "mensaje", texto |-> "faltan_columnas_base",
                    missing_stats |-> missing_stats],
           locals |-> [op |-> "evaluar_prop_bet", paso |-> "faltan_columnas_base"]]}
    ELSE IF falta /\ ~combinada THEN fin(Mensaje("columna_no_encontrada"))
    ELSE
    LET \* line 476: the combined column is created in datos_partidos
        datos_partidos1 ==
            IF falta THEN ColumnaSuma(datos_partidos0, stat_columns, stats_base)
            ELSE datos_partidos0
        \* line 485
        datos_partidos2 == FillNaColumn(datos_partidos1, stat_columns)
        \* lines 487-493; the call leaves datos_partidos as r.df
        r == calcular_probabilidad_historica(datos_partidos2, stat_columns, umbral,
                                             es_over, filtro_local)
        datos_partidos == r.df
        probabilidad == r.ret.probabilidad
        veces_cumplido == r.ret.veces_cumplido
        total_partidos == r.ret.total_partidos
    IN
    IF DatosInsuficientes(probabilidad, total_partidos)
    THEN {[ret |-> Mensaje("no_hay_suficientes_datos"),
           locals |-> [op |-> "evaluar_prop_bet",
                       paso |-> "no_hay_suficientes_datos",
                       stat_columns |-> stat_columns,
                       datos_partidos |-> datos_partidos,
                       probabilidad |-> probabilidad,
                       total_partidos |-> total_partidos]]}
    ELSE IF \E i \in DOMAIN datos_partidos.rows : datos_partidos.rows[i][stat_columns].k = "str"
    THEN {[ret |-> Raise("TypeError"),
           locals |-> [op |-> "evaluar_prop_bet", paso |-> "promedio"]]}
    ELSE
    LET promedio == MeanColumn(datos_partidos, stat_columns)
        valor_esperado == ValorEsperadoUnidad(probabilidad, cuota)
        desglose == Desglose(datos_partidos, tipos_temporada, stat_columns, umbral,
                             es_over, filtro_local)
    IN {[ret |-> [kind |-> "analisis",
                  texto |-> "analisis",
                  jugador |-> nombre_encontrado,
                  estadistica |-> prop,
                  es_over |-> es_over,
                  umbral |-> umbral,
                  cuota |-> cuota,
                  tipos |-> tipos_temporada,
                  filtro |-> filtro_local,
                  promedio |-> promedio,
                  total_partidos |-> total_partidos,
                  veces_cumplido |-> veces_cumplido,
                  probabilidad |-> probabilidad,
                  desglose |-> desglose,
                  valor_esperado_txt |-> ve_txt,
                  recomendacion |-> Recomendacion(valor_esperado),
                  ganancia_txt |-> g_txt],
         locals |-> [op |-> "evaluar_prop_bet",
                     paso |-> "analisis",
                     stat_columns |-> stat_columns,
                     datos_partidos |-> datos_partidos,
                     probabilidad |-> probabilidad,
                     total_partidos |-> total_partidos,
                     valor_esperado |-> valor_esperado]] :
          ve_txt \in Round2Set(valor_esperado),
          g_txt \in Round2Set(RSub(cuota, One))}

\* ------------------------------------------------ the inputs of SpecEV
MaxCuotaMedios == 6

ProbDen == 6

\* decimal odds 0, 0.5, 1, 1.5, ...
Cuotas == {Rat(n, 2) : n \in 0..MaxCuotaMedios}

Probs == {Rat(k, ProbDen) : k \in 0..ProbDen} \cup {Rat(3, 5), Rat(501, 1000)}

Montos == {Rat(1, 1), Rat(100, 1)}

RosterCompleto ==
    [columns |-> {"PLAYER_NAME", "PLAYER_ID"},
     rows |-> <<[PLAYER_NAME |-> <<"J", "a", "y", "s", "o", "n", " ", "T", "a", "t", "u", "m", " ">>,
                 PLAYER_ID |-> "1628369"],
                [PLAYER_NAME |-> <<"J", "a", "y", "l", "e", "n", " ", "B", "r", "o", "w", "n">>,
                 PLAYER_ID |-> "1627759"]>>]

Rosters == {EmptyDF, RosterCompleto}

\* a game log as the provider returns it: MATCHUP, PTS and REB per game
MkLog(games) ==
    [columns |-> {"MATCHUP", "PTS", "REB"},
     rows |-> [i \in DOMAIN games |->
                 [MATCHUP |-> IF games[i][1] THEN MATCHUP_HOME ELSE MATCHUP_AWAY,
                  PTS |-> games[i][2],
                  REB |-> Num(1)]]]

GamesEV == {<<TRUE, Num(MaxVal)>>, <<FALSE, Num(0)>>, <<FALSE, Null>>}

\* the game log of one home game that has no REB column
LogSinRebotes ==
    [columns |-> {"MATCHUP", "PTS"},
     rows |-> <<[MATCHUP |-> MATCHUP_HOME, PTS |-> Num(MaxVal)]>>]

LogsEV == {MkLog(g) : g \in [1..MaxRows -> GamesEV]} \cup {EmptyDF, LogSinRebotes}

LogsPlayoffsEV == {EmptyDF, MkLog(<< <<TRUE, Num(1)>> >>)}

StatsEV ==
    {[roster |-> [t \in Tipos |-> r],
      logs |-> [t \in Tipos |-> IF t = REGULAR_SEASON THEN lr ELSE lp],
      respuesta |-> TodasOk] :
        r \in Rosters, lr \in LogsEV, lp \in LogsPlayoffsEV}

Equipos == {EQUIPO, << >>}

Jugadores == {TATUM, << >>}

TiposProp == {<<"P", "u", "n", "t", "o", "s">>, <<"M", "i", "n", "u", "t", "o", "s">>}

Lineas == {Num(0), Num(1), Num(0 - 1), Str}

CuotasArg == {NumR(c) : c \in Cuotas} \cup {NoNum}

JugadoresEval == {<<"t", "a", "t", "u", "m">>, <<"N", "a", "d", "i", "e">>}

PUNTOS == <<"P", "u", "n", "t", "o", "s">>

PUNTOS_MAS_REBOTES == <<"P", "u", "n", "t", "o", "s", " ", "+", " ", "R", "e", "b", "o", "t", "e", "s">>

PUNTOS_MAS_REBOTES_MINUSCULAS == <<"p", "u", "n", "t", "o", "s", " ", "+", " ", "r", "e", "b", "o", "t", "e", "s">>

PUNTOS_MAS_REBOTES_SIN_ESPACIOS == <<"P", "u", "n", "t", "o", "s", "+", "R", "e", "b", "o", "t", "e", "s">>

REBOTES_MAS_PUNTOS == <<"R", "e", "b", "o", "t", "e", "s", " ", "+", " ", "P", "u", "n", "t", "o", "s">>

MINUTOS == <<"M", "i", "n", "u", "t", "o", "s">>

PropsEval ==
    {PUNTOS, PUNTOS_MAS_REBOTES, PUNTOS_MAS_REBOTES_MINUSCULAS,
     PUNTOS_MAS_REBOTES_SIN_ESPACIOS, REBOTES_MAS_PUNTOS, MINUTOS}

UmbralesEval == {Num(1), Str}

\* decimal odds 0.5, 1, 2, 3
CuotasEval == {Rat(n, 2) : n \in {1, 2, 4, 6}}

FiltrosEval == {TODOS, SOLO_LOCAL}

TiposTemporadaArg == {StrArg(REGULAR_SEASON), ListArg(<<REGULAR_SEASON, PLAYOFFS>>)}

\* ------------------------------------------ specification SpecEV
\* The generator is not followed here: analizar_prop finds it in any state.
InitEV ==
    /\ pc = "ready"
    /\ df = EmptyDF
    /\ stats \in StatsEV
    /\ call = NoCall
    /\ ret = NoRet
    /\ locals = NoLocals
    /\ np_random = NoRng

CalcularValorEsperado ==
    /\ pc = "ready"
    /\ \E cuota \in Cuotas, prob_real \in Probs, monto \in Montos :
         \E r \in calcular_valor_esperado(cuota, prob_real, monto) :
            /\ call' = [op |-> "calcular_valor_esperado", cuota |-> cuota,
                        prob_real |-> prob_real, monto |-> monto]
            /\ ret' = r.ret
            /\ locals' = r.locals
    /\ pc' = "done"
    /\ UNCHANGED <<df, stats, np_random>>

AnalizarProp ==
    /\ pc = "ready"
    /\ \E equipo \in Equipos, jugador \in Jugadores, tipo_prop \in TiposProp,
          linea \in Lineas, cuota \in CuotasArg, es_over \in BOOLEAN :
         \E seq \in [1..NSims -> BOOLEAN] :
            LET r == analizar_prop(stats, [seq |-> seq, pos |-> 0], equipo, jugador,
                                   tipo_prop, linea, cuota, es_over)
            IN /\ call' = [op |-> "analizar_prop", equipo |-> equipo, jugador |-> jugador,
                           tipo_prop |-> tipo_prop, linea |-> linea, cuota |-> cuota,
                           es_over |-> es_over]
               /\ ret' = r.ret
               /\ locals' = NoLocals
    /\ pc' = "done"
    /\ UNCHANGED <<df, stats, np_random>>

EvaluarPropBet ==
    /\ pc = "ready"
    /\ \E jugador \in JugadoresEval, prop \in PropsEval, umbral \in UmbralesEval,
          cuota \in CuotasEval, tipo_temporada \in TiposTemporadaArg,
          es_over \in BOOLEAN, filtro_local \in FiltrosEval :
         \E r \in evaluar_prop_bet(stats, EQUIPO, jugador, prop, umbral, cuota,
                                  tipo_temporada, es_over, filtro_local) :
            /\ call' = [op |-> "evaluar_prop_bet", equipo |-> EQUIPO,
                        jugador |-> jugador, prop |-> prop, umbral |-> umbral,
                        cuota |-> cuota, tipo_temporada |-> tipo_temporada,
                        es_over |-> es_over, filtro_local |-> filtro_local]
            /\ ret' = r.ret
            /\ locals' = r.locals
    /\ pc' = "done"
    /\ UNCHANGED <<df, stats, np_random>>

NextEV == CalcularValorEsperado \/ AnalizarProp \/ EvaluarPropBet

SpecEV == InitEV /\ [][NextEV]_vars

\* ------------------------------------------ specification SpecMC
\* the uniforms the generator yields once seeded with self.seed: twice
\* n_simulaciones of them, each in the lower (FALSE) or upper (TRUE) half
Flujos == [1..(2 * NSims) -> BOOLEAN]

\* game logs with n valid PTS values, the other games without a value
LogsMC ==
    {MkLog([i \in 1..MaxRows |->
              IF i <= n THEN <<TRUE, Num(IF i % 2 = 1 THEN MaxVal ELSE 0)>>
              ELSE <<FALSE, Null>>]) : n \in 0..MaxRows}

SeriesMC == UNION {[1..n -> {0, MaxVal}] : n \in 0..MaxRows}

\* a predictor exists: its constructor has seeded the global generator
InitMC ==
    /\ pc = "ready"
    /\ df = EmptyDF
    /\ stats \in {[roster |-> [t \in Tipos |-> RosterCompleto],
                    logs |-> [t \in Tipos |-> IF t = REGULAR_SEASON THEN lr ELSE EmptyDF],
                    respuesta |-> TodasOk] :
                      lr \in LogsMC}
    /\ call = NoCall
    /\ ret = NoRet
    /\ locals = NoLocals
    /\ np_random \in {[seq |-> s, pos |-> 0] : s \in Flujos}

\* BayesianPropPredictor(): one more predictor is constructed
NuevoPredictor ==
    /\ pc = "ready"
    /\ np_random.pos > 0
    /\ np_random' = np_random_seed(np_random)
    /\ UNCHANGED <<pc, df, stats, call, ret, locals>>

\* analizar_prop of any predictor, its draws taken from the global generator
AnalizarPropGlobal ==
    /\ pc = "ready"
    /\ np_random.pos + NSims <= 2 * NSims
    /\ \E linea \in {Num(1)}, es_over \in BOOLEAN :
         LET cuota == NumR(Rat(2, 1))
             r == analizar_prop(stats, np_random, EQUIPO, TATUM, PUNTOS, linea, cuota,
                                es_over)
         IN /\ call' = [op |-> "analizar_prop", equipo |-> EQUIPO, jugador |-> TATUM,
                        tipo_prop |-> PUNTOS, linea |-> linea, cuota |-> cuota,
                        es_over |-> es_over]
            /\ ret' = r.ret
            /\ np_random' = r.rng
    /\ UNCHANGED <<pc, df, stats, locals>>

\* _obtener_datos_historicos called on its own
ObtenerDatosHistoricos ==
    /\ pc = "ready"
    /\ call' = [op |-> "obtener_datos_historicos", equipo |-> EQUIPO,
                jugador |-> TATUM, tipo_prop |-> PUNTOS]
    /\ ret' = obtener_datos_historicos(stats, EQUIPO, TATUM, PUNTOS)
    /\ pc' = "done"
    /\ UNCHANGED <<df, stats, locals, np_random>>

\* _simular_valores called on its own with a Series of valid values
SimularValores ==
    /\ pc = "ready"
    /\ np_random.pos + NSims <= 2 * NSims
    /\ \E datos \in SeriesMC :
         LET r == simular_valores(np_random, datos)
         IN /\ call' = [op |-> "simular_valores", datos |-> datos]
            /\ ret' = r.ret
            /\ np_random' = r.rng
    /\ pc' = "done"
    /\ UNCHANGED <<df, stats, locals>>

NextMC == NuevoPredictor \/ AnalizarPropGlobal \/ ObtenerDatosHistoricos \/ SimularValores

SpecMC == InitMC /\ [][NextMC]_vars

\* -------------------------------------- specification SpecComb
\* Game records before any synthesis: some with all base columns, some
\* without, some with PTS_REB already delivered.
FramesComb ==
    UNION {{[columns |-> cols, rows |-> rs] :
              rs \in [1..MaxRows -> [cols -> {Num(1), Null}]]} :
           cols \in {{"PTS", "REB"}, {"PTS", "AST", "REB"}, {"STL"},
                     {"PTS", "REB", "PTS_REB"}}}

InitComb ==
    /\ pc = "ready"
    /\ df \in FramesComb
    /\ stats = NoStats
    /\ call = NoCall
    /\ ret = NoRet
    /\ locals = NoLocals
    /\ np_random = NoRng

\* One application of a synthesis to df, the first or the repeated one:
\* the first records the call and what it returned.
Sintetizar(operacion, arg, resultado) ==
    /\ pc \in {"ready", "once"}
    /\ pc = "once" => (call.op = operacion /\ call.arg = arg)
    /\ df' = resultado
    /\ call' = IF pc = "ready" THEN [op |-> operacion, arg |-> arg, df |-> df] ELSE call
    /\ ret' = IF pc = "ready" THEN [kind |-> "df", df |-> resultado] ELSE ret
    /\ pc' = IF pc = "ready" THEN "once" ELSE "twice"
    /\ UNCHANGED <<stats, locals, np_random>>

CreateCombinedStats == Sintetizar("create_combined_stats", "", create_combined_stats(df))

\* lines 469-476 of evaluar_prop_bet for one combined column
CrearColumnaCombinada ==
    \E c \in DOMAIN ColSplit :
        Sintetizar("evaluar_prop_bet", c, CrearCombinada(df, c, ColSplit[c]))

ColumnasCompuestas ==
    Sintetizar("obtener_estadisticas_jugador_por_partido", "", columnas_compuestas(df))

NextComb == CreateCombinedStats \/ CrearColumnaCombinada \/ ColumnasCompuestas

SpecComb == InitComb /\ [][NextComb]_vars

\* ------------------------------------------ specification SpecPipe
\* evaluar_prop_bet statement by statement.  locals holds the local
\* variables of the call, the steps it has run (pasos) and the provider
\* calls it has made (pedidos).
LogsPipe ==
    {EmptyDF, LogSinRebotes,
     MkLog(<< <<TRUE, Num(MaxVal)>>, <<FALSE, Num(0)>> >>),
     MkLog(<< <<FALSE, Null>> >>)}

StatsPipe ==
    {[roster |-> [t \in Tipos |-> r],
      logs |-> [t \in Tipos |-> IF t = REGULAR_SEASON THEN lr ELSE lp],
      respuesta |-> resp] :
        r \in Rosters, lr \in LogsPipe, lp \in LogsPlayoffsEV,
        resp \in [Tipos -> {RESPUESTA_OK, "sin_resultSets", "error"}]}

PropsPipe == {PUNTOS, PUNTOS_MAS_REBOTES, REBOTES_MAS_PUNTOS, MINUTOS}

\* a name that matches in part, one that matches nobody, and the empty name
JugadoresPipe == JugadoresEval \cup {<< >>}

LocalsPipe ==
    [op |-> "evaluar_prop_bet", paso |-> "", pasos |-> << >>, pedidos |-> << >>,
     tipos_temporada |-> << >>, i |-> 1, df_jugadores |-> EmptyDF,
     nombre_encontrado |-> << >>, player_id |-> "", datos_partidos |-> EmptyDF,
     stat_columns |-> "", probabilidad |-> Zero, veces_cumplido |-> 0,
     total_partidos |-> 0, estimada |-> Zero, promedio |-> Zero,
     valor_esperado |-> Zero, desglose |-> << >>]

InitPipe ==
    /\ pc = "ready"
    /\ df = EmptyDF
    /\ stats \in StatsPipe
    /\ call = NoCall
    /\ ret = NoRet
    /\ locals = NoLocals
    /\ np_random = NoRng

\* a statement of the call ran: the step is noted, the locals l are left
Sigue(paso, l, siguiente) ==
    /\ locals' = [l EXCEPT !.pasos = Append(locals.pasos, paso)]
    /\ pc' = siguiente
    /\ UNCHANGED <<df, stats, call, ret, np_random>>

\* return r at the step paso
Retorna(paso, r) ==
    /\ locals' = [locals EXCEPT !.pasos = Append(@, paso), !.paso = r.texto]
    /\ ret' = r
    /\ pc' = "done"
    /\ UNCHANGED <<df, stats, call, np_random>>

\* lines 293-306: the call starts
Llamar ==
    /\ pc = "ready"
    /\ \E jugador \in JugadoresPipe, prop \in PropsPipe, umbral \in UmbralesEval,
          tipo_temporada \in TiposTemporadaArg, es_over \in BOOLEAN,
          filtro_local \in FiltrosEval :
         /\ call' = [op |-> "evaluar_prop_bet", equipo |-> EQUIPO,
                     jugador |-> jugador, prop |-> prop, umbral |-> umbral,
                     cuota |-> Rat(2, 1), tipo_temporada |-> tipo_temporada,
                     es_over |-> es_over, filtro_local |-> filtro_local]
         /\ locals' = [LocalsPipe EXCEPT !.tipos_temporada =
                          IF tipo_temporada.k = "list" THEN tipo_temporada.v
                          ELSE <<tipo_temporada.v>>]
    /\ pc' = "roster"
    /\ UNCHANGED <<df, stats, ret, np_random>>

\* lines 308-318: one turn of the loop over the season types
BuscarJugadoresTipo ==
    /\ pc = "roster"
    /\ LET tipo == locals.tipos_temporada[locals.i]
           df_temp == obtener_estadisticas_jugadores_equipo(stats, call.equipo, tipo)
           ultimo == locals.i = Len(locals.tipos_temporada)
       IN Sigue("roster",
                [locals EXCEPT
                   !.pedidos = Append(@, <<"obtener_estadisticas_jugadores_equipo", tipo>>),
                   !.df_jugadores =
                       IF DfEmpty(df_temp) THEN @
                       ELSE Concat(@, SetColumn(df_temp, "TIPO_TEMPORADA", tipo)),
                   !.i = IF ultimo THEN 1 ELSE @ + 1],
                IF ultimo THEN "jugador" ELSE "roster")

\* lines 320-344: the player is looked up in the roster
BuscarJugador ==
    /\ pc = "jugador"
    /\ IF DfEmpty(locals.df_jugadores)
       THEN Retorna("jugador", Mensaje("no_hay_datos_equipo"))
       ELSE IF "PLAYER_NAME" \notin locals.df_jugadores.columns
               \/ "PLAYER_ID" \notin locals.df_jugadores.columns
       THEN Retorna("jugador", Mensaje("faltan_columnas_jugador"))
       ELSE
       LET df_jugadores ==
               [locals.df_jugadores EXCEPT !.rows =
                   [i \in DOMAIN @ |-> [@[i] EXCEPT !["PLAYER_NAME"] = StrStrip(@)]]]
           jugadores ==
               SortedStrs({df_jugadores.rows[i]["PLAYER_NAME"] :
                             i \in DOMAIN df_jugadores.rows})
           nombre_encontrado == find_matching_player(jugadores, call.jugador)
       IN IF nombre_encontrado = << >>
          THEN Retorna("jugador", Mensaje("jugador_no_encontrado"))
          ELSE Sigue("jugador",
                     [locals EXCEPT
                        !.df_jugadores = df_jugadores,
                        !.nombre_encontrado = nombre_encontrado,
                        !.player_id =
                            WhereEq(df_jugadores, "PLAYER_NAME",
                                    nombre_encontrado).rows[1]["PLAYER_ID"]],
                     "logs")

\* lines 350-359: one turn of the loop over the season types
BuscarPartidosTipo ==
    /\ pc = "logs"
    /\ LET tipo == locals.tipos_temporada[locals.i]
           df_temp == get_player_game_logs(stats, locals.player_id, tipo)
           ultimo == locals.i = Len(locals.tipos_temporada)
       IN Sigue("logs",
                [locals EXCEPT
                   !.pedidos = Append(@, <<"get_player_game_logs", tipo>>),
                   !.datos_partidos =
                       IF DfEmpty(df_temp) THEN @
                       ELSE Concat(@, SetColumn(df_temp, "TIPO_TEMPORADA", tipo)),
                   !.i = IF ultimo THEN 1 ELSE @ + 1],
                IF ultimo THEN "partidos" ELSE "logs")

\* lines 361-362
ComprobarPartidos ==
    /\ pc = "partidos"
    /\ IF SinPartidos(locals.datos_partidos)
       THEN Retorna("partidos", Mensaje("no_hay_datos_partidos"))
       ELSE Sigue("partidos", locals, "resolver")

\* lines 450-466
ResolverEtiqueta ==
    /\ pc = "resolver"
    /\ LET stat_columns == ResolverProp(call.prop)
       IN IF stat_columns = ""
          THEN Retorna("resolver",
                       [kind |-> "mensaje", texto |-> "prop_no_encontrada",
                        columnas_disponibles |-> locals.datos_partidos.columns])
          ELSE Sigue("resolver", [locals EXCEPT !.stat_columns = stat_columns],
                     "columna")

\* lines 468-485
CrearColumna ==
    /\ pc = "columna"
    /\ LET stat_columns == locals.stat_columns
           d == locals.datos_partidos
           falta == stat_columns \notin d.columns
           combinada == stat_columns \in DOMAIN ColSplit
           stats_base == IF combinada THEN ColSplit[stat_columns] ELSE << >>
           missing_stats == SelectSeq(stats_base, LAMBDA c : c \notin d.columns)
       IN IF falta /\ combinada /\ missing_stats # << >>
          THEN Retorna("columna",
                       [kind |-> "mensaje", texto |-> "faltan_columnas_base",
                        missing_stats |-> missing_stats])
          ELSE IF falta /\ ~combinada
          THEN Retorna("columna", Mensaje("columna_no_encontrada"))
          ELSE Sigue("columna",
                     [locals EXCEPT !.datos_partidos =
                         FillNaColumn(IF falta
                                      THEN ColumnaSuma(d, stat_columns, stats_base)
                                      ELSE d,
                                      stat_columns)],
                     "estimar")

\* lines 487-493
Estimar ==
    /\ pc = "estimar"
    /\ LET r == calcular_probabilidad_historica(locals.datos_partidos,
                                                locals.stat_columns, call.umbral,
                                                call.es_over, call.filtro_local)
       IN Sigue("estimar",
                [locals EXCEPT !.datos_partidos = r.df,
                               !.probabilidad = r.ret.probabilidad,
                               !.estimada = r.ret.probabilidad,
                               !.veces_cumplido = r.ret.veces_cumplido,
                               !.total_partidos = r.ret.total_partidos],
                "insuficientes")

\* lines 495-496
ComprobarDatos ==
    /\ pc = "insuficientes"
    /\ IF DatosInsuficientes(locals.probabilidad, locals.total_partidos)
       THEN Retorna("insuficientes", Mensaje("no_hay_suficientes_datos"))
       ELSE Sigue("insuficientes", locals, "valor")

\* lines 498-503
ValorEsperado ==
    /\ pc = "valor"
    /\ IF \E i \in DOMAIN locals.datos_partidos.rows :
             locals.datos_partidos.rows[i][locals.stat_columns].k = "str"
       THEN /\ locals' = [locals EXCEPT !.pasos = Append(@, "valor"), !.paso = "promedio"]
            /\ ret' = Raise("TypeError")
            /\ pc' = "done"
            /\ UNCHANGED <<df, stats, call, np_random>>
       ELSE Sigue("valor",
                  [locals EXCEPT
                     !.promedio = MeanColumn(locals.datos_partidos, locals.stat_columns),
                     !.valor_esperado = ValorEsperadoUnidad(locals.probabilidad, call.cuota)],
                  "desglose")

\* lines 507-520: one turn of the loop over the season types
DesgloseTipo ==
    /\ pc = "desglose"
    /\ LET tipo == locals.tipos_temporada[locals.i]
           ultimo == locals.i = Len(locals.tipos_temporada)
       IN Sigue("desglose",
                [locals EXCEPT
                   !.desglose = @ \o Desglose(locals.datos_partidos, <<tipo>>,
                                               locals.stat_columns, call.umbral,
                                               call.es_over, call.filtro_local),
                   !.i = IF ultimo THEN 1 ELSE @ + 1],
                IF ultimo THEN "informe" ELSE "desglose")

\* lines 522-555: the report is formatted and returned
Informe ==
    /\ pc = "informe"
    /\ \E ve_txt \in Round2Set(locals.valor_esperado),
          g_txt \in Round2Set(RSub(call.cuota, One)) :
         Retorna("informe",
                 [kind |-> "analisis",
                  texto |-> "analisis",
                  jugador |-> locals.nombre_encontrado,
                  estadistica |-> call.prop,
                  es_over |-> call.es_over,
                  umbral |-> call.umbral,
                  cuota |-> call.cuota,
                  tipos |-> locals.tipos_temporada,
                  filtro |-> call.filtro_local,
                  promedio |-> locals.promedio,
                  total_partidos |-> locals.total_partidos,
                  veces_cumplido |-> locals.veces_cumplido,
                  probabilidad |-> locals.probabilidad,
                  desglose |-> locals.desglose,
                  valor_esperado_txt |-> ve_txt,
                  recomendacion |-> Recomendacion(locals.valor_esperado),
                  ganancia_txt |-> g_txt])

NextPipe ==
    \/ Llamar
    \/ BuscarJugadoresTipo
    \/ BuscarJugador
    \/ BuscarPartidosTipo
    \/ ComprobarPartidos
    \/ ResolverEtiqueta
    \/ CrearColumna
    \/ Estimar
    \/ ComprobarDatos
    \/ ValorEsperado
    \/ DesgloseTipo
    \/ Informe

SpecPipe == InitPipe /\ [][NextPipe]_vars

\* ------------------------------------------ GoogleSheetsOddsLoader
DIGITOS == <<"0", "1", "2", "3", "4", "5", "6", "7", "8", "9">>

EsDigito(c) == \E i \in DOMAIN DIGITOS : DIGITOS[i] = c

ValorDigito(c) == IndexOf(DIGITOS, c) - 1

\* Optional[float]
None == [k |-> "none", r |-> Zero]

Float(r) == [k |-> "float", r |-> r]

\* a str float() accepts: a sign, digits with at most one point, one digit
\* at least
EsLiteral(s) ==
    LET cuerpo == IF s # << >> /\ Head(s) \in {"-", "+"} THEN Tail(s) ELSE s
    IN /\ \A i \in DOMAIN cuerpo : EsDigito(cuerpo[i]) \/ cuerpo[i] = "."
       /\ \E i \in DOMAIN cuerpo : EsDigito(cuerpo[i])
       /\ Cardinality({i \in DOMAIN cuerpo : cuerpo[i] = "."}) <= 1

RECURSIVE Entero(_)
Entero(s) ==
    IF s = << >> THEN 0
    ELSE Entero(SubSeq(s, 1, Len(s) - 1)) * 10 + ValorDigito(s[Len(s)])

RECURSIVE Pot10(_)
Pot10(n) == IF n = 0 THEN 1 ELSE 10 * Pot10(n - 1)

\* float(s) of a str float() accepts
ParseFloat(s) ==
    LET negativo == s # << >> /\ Head(s) = "-"
        cuerpo == IF s # << >> /\ Head(s) \in {"-", "+"} THEN Tail(s) ELSE s
        punto == IndexOf(cuerpo, ".")
        decimales == IF punto = 0 THEN 0 ELSE Len(cuerpo) - punto
        cifras == SelectSeq(cuerpo, EsDigito)
    IN Rat((IF negativo THEN -1 ELSE 1) * Entero(cifras), Pot10(decimales))

\* _convert_to_float of a cell of the sheet (a str)
convert_to_float(value) ==
    IF value = << >> THEN None
    ELSE LET value_str0 == StrStrip(value)
             value_str == StrReplace(value_str0, <<",">>, <<".">>)
             \* re.sub(r'[^\d.-]', '', value_str)
             numeric_str == SelectSeq(value_str,
                                      LAMBDA c : EsDigito(c) \/ c \in {".", "-"})
         IN IF value_str0 = << >> THEN None
            ELSE IF EsLiteral(value_str) THEN Float(ParseFloat(value_str))
            ELSE IF numeric_str = << >> THEN None
            ELSE IF EsLiteral(numeric_str) THEN Float(ParseFloat(numeric_str))
            ELSE None

\* while len(row) < 3: row.append('')
Rellenar(row) == row \o [j \in 1..(3 - Len(row)) |-> << >>]

\* i += 2 after a row with a label
AvanceProp == 2

\* lines 236-284: the while loop from row i (1-based) on
RECURSIVE ProcesarFilas(_, _, _)
ProcesarFilas(values, i, props_list) ==
    IF i > Len(values) THEN props_list
    ELSE LET row == Rellenar(values[i])
             prop_name == StrStrip(row[1])
             over_line == convert_to_float(row[2])
             under_line == convert_to_float(row[3])
             hay_siguiente == i + 1 <= Len(values)
             next_row == IF hay_siguiente THEN Rellenar(values[i + 1])
                         ELSE << << >>, << >>, << >> >>
             over_odds == IF hay_siguiente THEN convert_to_float(next_row[2]) ELSE None
             under_odds == IF hay_siguiente THEN convert_to_float(next_row[3]) ELSE None
             current_prop == [prop_name |-> prop_name,
                              over_line |-> over_line, under_line |-> under_line,
                              over_odds |-> over_odds, under_odds |-> under_odds]
         IN IF prop_name = << >> THEN ProcesarFilas(values, i + 1, props_list)
            ELSE ProcesarFilas(values, i + AvanceProp,
                               IF over_line # None \/ under_line # None
                               THEN Append(props_list, current_prop)
                               ELSE props_list)

\* load_odds for one sheet: the props_list kept for the player of the sheet
load_odds(values) ==
    LET props_list == IF values = << >> THEN << >> ELSE ProcesarFilas(values, 1, << >>)
    IN [kind |-> "props", guardada |-> props_list # << >>, props_list |-> props_list]

\* the rows of the sheets
FILA_CABECERA == <<<<"P", "r", "o", "p">>, <<"M", "a-acute", "s">>, <<"M", "e", "n", "o", "s">>>>

FILA_PUNTOS == <<PUNTOS, <<"2", "5", ".", "5">>, <<"2", "5", ".", "5">>>>

FILA_ASISTENCIAS == <<<<"A", "s", "i", "s", "t", "e", "n", "c", "i", "a", "s">>, <<"5", ",", "5">>>>

FILA_SIN_LINEA == <<MINUTOS>>

FILA_CUOTAS == <<<< >>, <<"1", ".", "8", "5">>, <<"1", ".", "9", "5">>>>

FILA_CUOTA_MAS == <<<< >>, <<"2">>>>

FilasEtiqueta == {FILA_PUNTOS, FILA_ASISTENCIAS, FILA_SIN_LINEA}

FilasCuotas == {FILA_CUOTAS, FILA_CUOTA_MAS}

Filas == {FILA_CABECERA} \cup FilasEtiqueta \cup FilasCuotas

MaxFilas == 4

Hojas == UNION {[1..n -> Filas] : n \in 0..MaxFilas}

\* ---------------------------------------- specification SpecSheet
InitSheet ==
    /\ pc = "ready"
    /\ df = EmptyDF
    /\ stats \in {[values |-> v] : v \in Hojas}
    /\ call = NoCall
    /\ ret = NoRet
    /\ locals = NoLocals
    /\ np_random = NoRng

LoadOdds ==
    /\ pc = "ready"
    /\ call' = [op |-> "load_odds", values |-> stats.values]
    /\ ret' = load_odds(stats.values)
    /\ pc' = "done"
    /\ UNCHANGED <<df, stats, locals, np_random>>

NextSheet == LoadOdds

SpecSheet == InitSheet /\ [][NextSheet]_vars

\* ---------------------------------------------- BetScraper.clean_odds
\* str(n) of a natural number
RECURSIVE Digitos(_)
Digitos(n) ==
    IF n < 10 THEN <<DIGITOS[n + 1]>>
    ELSE Digitos(n \div 10) \o <<DIGITOS[(n % 10) + 1]>>

\* odds_text.split('/')
RECURSIVE StrSplit(_, _)
StrSplit(s, sep) ==
    LET k == IndexOf(s, sep)
    IN IF k = 0 THEN <<s>>
       ELSE <<SubSeq(s, 1, k - 1)>> \o StrSplit(SubSeq(s, k + 1, Len(s)), sep)

\* clean_odds: the set of values it can return, None after any exception
clean_odds(odds_text0) ==
    LET \* re.sub(r'[^\d./-]', '', odds_text)
        odds_text == SelectSeq(odds_text0,
                               LAMBDA c : EsDigito(c) \/ c \in {".", "/", "-"})
        partes == StrSplit(odds_text, "/")
        redondeo(x) == {Float(r) : r \in Round2Set(x)}
    IN IF \E i \in DOMAIN odds_text : odds_text[i] \in {"+", "-"}
       THEN IF ~EsLiteral(odds_text) THEN {None}
            ELSE LET odds == ParseFloat(odds_text)
                 IN IF RGt(odds, Zero) THEN redondeo(RAdd(One, RDiv(odds, Rat(100, 1))))
                    ELSE IF REq(odds, Zero) THEN {None}
                    ELSE redondeo(RAdd(One, RDiv(Rat(100, 1), Rat(Abs(odds[1]), odds[2]))))
       ELSE IF \E i \in DOMAIN odds_text : odds_text[i] = "/"
       THEN IF Len(partes) # 2 \/ ~EsLiteral(partes[1]) \/ ~EsLiteral(partes[2])
            THEN {None}
            ELSE LET num == ParseFloat(partes[1])
                     den == ParseFloat(partes[2])
                 IN IF REq(den, Zero) THEN {None}
                    ELSE redondeo(RAdd(One, RDiv(num, den)))
       ELSE IF ~EsLiteral(odds_text) THEN {None}
       ELSE redondeo(ParseFloat(odds_text))

\* the quotes a bookmaker page shows
MaxAmericana == 30

MaxFraccion == 3

CuotasAmericanas ==
    {[formato |-> "americana", positiva |-> pos, n |-> 10 * k, d |-> 1,
      texto |-> (IF pos THEN <<"+">> ELSE <<"-">>) \o Digitos(10 * k)] :
        pos \in BOOLEAN, k \in 10..MaxAmericana}

CuotasFraccionarias ==
    {[formato |-> "fraccionaria", positiva |-> TRUE, n |-> a, d |-> b,
      texto |-> Digitos(a) \o <<"/">> \o Digitos(b)] :
        a \in 0..MaxFraccion, b \in 0..MaxFraccion}

CuotasDecimales ==
    {[formato |-> "decimal", positiva |-> TRUE, n |-> a, d |-> 100,
      texto |-> Digitos(a \div 100) \o <<".">> \o Digitos((a \div 10) % 10)
                \o Digitos(a % 10)] :
        a \in {185, 191, 250, 300}}

CuotasTexto ==
    CuotasAmericanas \cup CuotasFraccionarias \cup CuotasDecimales
    \cup {[formato |-> "otro", positiva |-> TRUE, n |-> 0, d |-> 1, texto |-> t] :
            t \in {<< >>, <<"N", "/", "A">>, <<"1", "-", "2">>}}

\* ---------------------------------------- specification SpecOdds
InitOdds ==
    /\ pc = "ready"
    /\ df = EmptyDF
    /\ stats \in {[cuota_publicada |-> c] : c \in CuotasTexto}
    /\ call = NoCall
    /\ ret = NoRet
    /\ locals = NoLocals
    /\ np_random = NoRng

CleanOdds ==
    /\ pc = "ready"
    /\ call' = [op |-> "clean_odds", odds_text |-> stats.cuota_publicada.texto]
    /\ ret' \in clean_odds(stats.cuota_publicada.texto)
    /\ pc' = "done"
    /\ UNCHANGED <<df, stats, locals, np_random>>

NextOdds == CleanOdds

SpecOdds == InitOdds /\ [][NextOdds]_vars

\* ------------------------------------------- NBAStats._make_request
\* max_retries = 3
max_retries == 3

\* retry_delay = 2
retry_delay_inicial == 2

\* Retry(total=3, ...): the retries the mounted adapter makes inside one
\* session.get
retry_total == 3

\* status_forcelist
status_forcelist == {429, 500, 502, 503, 504}

\* what one HTTP request can come back with: a status, or 0 for a
\* connection that fails
EstadosHTTP == {200, 404, 503, 0}

Payloads == {"resultSets", "sin_resultSets"}

Timeouts == {20, 30, 45, 60}

\* line 144 with the comparison one too far
EsUltimoIntento_uno_mas(attempt) == attempt = max_retries

\* if attempt == max_retries - 1
EsUltimoIntento(attempt) == attempt = max_retries - 1

\* ------------------------------------------ specification SpecReq
\* locals: attempt and retry_delay of the call, the time.sleep calls it has
\* made (sleeps), the session.get calls (gets), the HTTP requests sent
\* (peticiones), the adapter's retries inside the current session.get
\* (reintentos) and the exceptions caught (fallos).
InitReq ==
    /\ pc = "ready"
    /\ df = EmptyDF
    /\ stats \in {[roster |-> << >>, logs |-> << >>, respuesta |-> << >>,
                   payload |-> p] : p \in Payloads}
    /\ call = NoCall
    /\ ret = NoRet
    /\ locals = NoLocals
    /\ np_random = NoRng

\* lines 124-129
MakeRequest ==
    /\ pc = "ready"
    /\ \E timeout \in Timeouts :
         call' = [op |-> "make_request", timeout |-> timeout]
    /\ locals' = [attempt |-> 0, retry_delay |-> retry_delay_inicial, sleeps |-> << >>,
                  gets |-> 0, peticiones |-> 0, reintentos |-> 0, fallos |-> << >>]
    /\ pc' = "get"
    /\ UNCHANGED <<df, stats, ret, np_random>>

\* lines 131-136: session.get is called
SessionGet ==
    /\ pc = "get"
    /\ locals' = [locals EXCEPT !.gets = @ + 1, !.reintentos = 0]
    /\ pc' = "http"
    /\ UNCHANGED <<df, stats, call, ret, np_random>>

\* one HTTP request of the session.get under way: the adapter sends it again
\* after a connection error or a status of status_forcelist while it has
\* retries left; line 137 raises for any other error status
PeticionHTTP ==
    /\ pc = "http"
    /\ \E estado \in EstadosHTTP :
         LET reintentable == estado = 0 \/ estado \in status_forcelist
             l == [locals EXCEPT !.peticiones = @ + 1]
         IN IF estado = 200
            THEN /\ locals' = l
                 /\ pc' = "json"
            ELSE IF reintentable /\ locals.reintentos < retry_total
            THEN /\ locals' = [l EXCEPT !.reintentos = @ + 1]
                 /\ pc' = "http"
            ELSE /\ locals' = [l EXCEPT !.fallos =
                                  Append(@, IF estado = 0 THEN "ConnectionError"
                                            ELSE IF reintentable THEN "RetryError"
                                            ELSE "HTTPError")]
                 /\ pc' = "except"
    /\ UNCHANGED <<df, stats, call, ret, np_random>>

\* lines 139-142: time.sleep(1); return response.json()
Devolver ==
    /\ pc = "json"
    /\ locals' = [locals EXCEPT !.sleeps = Append(@, 1)]
    /\ ret' = [kind |-> "json", data |-> stats.payload]
    /\ pc' = "done"
    /\ UNCHANGED <<df, stats, call, np_random>>

\* lines 143-145: the last attempt has failed
Fallar ==
    /\ pc = "except"
    /\ EsUltimoIntento(locals.attempt)
    /\ ret' = Raise("Exception")
    /\ pc' = "done"
    /\ UNCHANGED <<df, stats, call, locals, np_random>>

\* lines 146-148, and the for statement of line 129: when the range is
\* used up the function falls off its end and returns None
Reintentar ==
    /\ pc = "except"
    /\ ~EsUltimoIntento(locals.attempt)
    /\ locals' = [locals EXCEPT !.sleeps = Append(@, locals.retry_delay),
                                !.retry_delay = @ * 2,
                                !.attempt = @ + 1]
    /\ IF locals.attempt + 1 < max_retries
       THEN pc' = "get" /\ ret' = ret
       ELSE pc' = "done" /\ ret' = [kind |-> "json", data |-> "None"]
    /\ UNCHANGED <<df, stats, call, np_random>>

NextReq ==
    \/ MakeRequest
    \/ SessionGet
    \/ PeticionHTTP
    \/ Devolver
    \/ Fallar
    \/ Reintentar

SpecReq == InitReq /\ [][NextReq]_vars

\* ------------------------------------- properties of the estimator
HistDone == pc = "done" /\ call.op = "calcular_probabilidad_historica"

\* the home/away indicator of a game, when its record carries one
TieneIndicador(r) == "LOCATION" \in DOMAIN r \/ "MATCHUP" \in DOMAIN r

EsLocal(r) ==
    IF "LOCATION" \in DOMAIN r THEN r["LOCATION"] = "Home" ELSE ~ContainsAt(r["MATCHUP"])

IndicadorCoincide(r, filtro_local) ==
    /\ TieneIndicador(r)
    /\ (filtro_local = SOLO_LOCAL) = EsLocal(r)

\* the games of the input the location step lets through
Retenidos(c) ==
    {i \in DOMAIN c.df.rows :
        \/ c.filtro_local = TODOS
        \/ ~TieneIndicador(c.df.rows[i])
        \/ IndicadorCoincide(c.df.rows[i], c.filtro_local)}

\* the call reaches the counting step
HistCuenta ==
    /\ HistDone
    /\ ~DfEmpty(call.df)
    /\ call.columna \in call.df.columns
    /\ call.umbral.k = "num"

\* C1: a game satisfies the bet only when its value is strictly above (over)
\* or strictly below (under) the threshold; a game whose value equals the
\* threshold is in total_partidos and never in veces_cumplido.
Thm_C1 ==
    (HistDone /\ ret.total_partidos > 0) =>
        LET v == locals.valores
            u == call.umbral.v
            above == {i \in DOMAIN v : v[i] > u}
            below == {i \in DOMAIN v : v[i] < u}
            ties == {i \in DOMAIN v : v[i] = u}
        IN /\ ret.total_partidos = Len(v)
           /\ ret.veces_cumplido =
                 (IF call.es_over THEN Cardinality(above) ELSE Cardinality(below))
           /\ ret.veces_cumplido + Cardinality(ties) <= ret.total_partidos

Witness_C1 ==
    /\ HistDone
    /\ ret.total_partidos > 1
    /\ ret.veces_cumplido > 0
    /\ \E i \in DOMAIN locals.valores : locals.valores[i] = call.umbral.v

\* C2: on every return path 0 <= veces_cumplido <= total_partidos,
\* probabilidad = veces_cumplido / total_partidos when total_partidos > 0
\* and probabilidad = 0.0 when total_partidos = 0.
Thm_C2 ==
    HistDone =>
        /\ ret.kind = "triple"
        /\ 0 <= ret.veces_cumplido
        /\ ret.veces_cumplido <= ret.total_partidos
        /\ RDen(ret.probabilidad) > 0
        /\ (ret.total_partidos > 0 =>
              RNum(ret.probabilidad) * ret.total_partidos
                 = ret.veces_cumplido * RDen(ret.probabilidad))
        /\ (ret.total_partidos = 0 => RNum(ret.probabilidad) = 0)

Witness_C2 ==
    /\ HistDone
    /\ 0 < ret.veces_cumplido
    /\ ret.veces_cumplido < ret.total_partidos

\* C7: an empty record set, on input or after a home-only / away-only filter
\* that matches no game, gives exactly (0.0, 0, 0) and no error.
SinCoincidencias ==
    /\ call.filtro_local # TODOS
    /\ \A i \in DOMAIN call.df.rows :
          /\ TieneIndicador(call.df.rows[i])
          /\ ~IndicadorCoincide(call.df.rows[i], call.filtro_local)

Claim_C8 ==
    (HistDone /\ call.filtro_local # TODOS) =>
        /\ \A i \in DOMAIN locals.muestra :
              IndicadorCoincide(locals.muestra[i], call.filtro_local)
        /\ ret.total_partidos <=
              Cardinality({i \in DOMAIN call.df.rows :
                             IndicadorCoincide(call.df.rows[i], call.filtro_local)})

\* C9: a missing value counts as a game with value 0 for a cumulative
\* counting field, and the game is dropped for any other field.
Thm_C9 ==
    HistCuenta =>
        LET rows == call.df.rows
            col == call.columna
            u == call.umbral.v
            nums == {i \in Retenidos(call) : rows[i][col].k = "num"}
            nulls == {i \in Retenidos(call) : rows[i][col].k = "null"}
            hit(x) == IF call.es_over THEN x > u ELSE x < u
            numhits == Cardinality({i \in nums : hit(rows[i][col].v)})
        IN IF col \in ColumnasAcumulativas
           THEN /\ ret.total_partidos = Cardinality(nums) + Cardinality(nulls)
                /\ ret.veces_cumplido =
                      numhits + (IF hit(0) THEN Cardinality(nulls) ELSE 0)
           ELSE /\ ret.total_partidos = Cardinality(nums)
                /\ ret.veces_cumplido = numhits

Witness_C9 ==
    /\ HistCuenta
    /\ call.columna \in ColumnasAcumulativas
    /\ ret.veces_cumplido > 0
    /\ ~call.es_over
    /\ \A i \in Retenidos(call) : call.df.rows[i][call.columna].k = "null"

\* C10: a present but non-numeric value of a cumulative counting field is
\* treated as 0: the game stays in total_partidos and is compared as 0.
Claim_C10 ==
    (HistCuenta /\ call.columna \in ColumnasAcumulativas) =>
        LET rows == call.df.rows
            col == call.columna
            u == call.umbral.v
            hit(x) == IF call.es_over THEN x > u ELSE x < u
            val(i) == IF rows[i][col].k = "num" THEN rows[i][col].v ELSE 0
        IN /\ ret.total_partidos = Cardinality(Retenidos(call))
           /\ ret.veces_cumplido = Cardinality({i \in Retenidos(call) : hit(val(i))})

\* ------------------------------- properties of the expected value
EVDone(op) == pc = "done" /\ call.op = op

\* p > 1/o for odds o > 0
SuperaImplicita(p, o) == p[1] * o[1] > p[2] * o[2]

\* x = m * (p*(o - 1) - (1 - p)*1), over the common denominator
EsValorEsperado(x, p, o, m) ==
    x[1] * (p[2] * o[2] * m[2])
        = m[1] * (p[1] * (o[1] - o[2]) - (p[2] - p[1]) * o[2]) * x[2]

\* C3: the expected value per unit staked of evaluar_prop_bet and of
\* analizar_prop is p*(o-1) - (1-p)*1, and calcular_valor_esperado computes
\* the stake times that value before it rounds; p = 0.6, o = 2.0 gives 0.2.
Thm_C3 ==
    /\ (EVDone("evaluar_prop_bet") /\ ret.kind = "analisis" /\ RGt(call.cuota, One)) =>
          EsValorEsperado(locals.valor_esperado, ret.probabilidad, call.cuota, One)
    /\ (EVDone("analizar_prop") /\ ret.kind = "dict") =>
          EsValorEsperado(ret.metricas_apuesta.valor_esperado, ret.probabilidad,
                          call.cuota.r, One)
    /\ (EVDone("calcular_valor_esperado") /\ ret.kind = "dict" /\ RGt(call.cuota, One)) =>
          /\ EsValorEsperado(locals.valor_esperado, call.prob_real, call.cuota, call.monto)
          /\ ret.valor_esperado \in Round2Set(locals.valor_esperado)
          /\ ((call.prob_real = Rat(3, 5) /\ call.cuota = Rat(2, 1) /\ call.monto = One)
                 => locals.valor_esperado = Rat(1, 5))

Witness_C3 ==
    /\ EVDone("calcular_valor_esperado")
    /\ call.prob_real = Rat(3, 5)
    /\ call.cuota = Rat(2, 1)
    /\ call.monto = One
    /\ ret.kind = "dict"
    /\ ret.valor_esperado = Rat(1, 5)

Thm_C5 ==
    (EVDone("evaluar_prop_bet") /\ ret.kind = "analisis") =>
        /\ ret.recomendacion \in {"APOSTAR", "NO APOSTAR"}
        /\ (ret.recomendacion = "APOSTAR") <=> RGt(locals.valor_esperado, Zero)
        /\ RLe(locals.valor_esperado, Zero) => ret.recomendacion = "NO APOSTAR"

Witness_C5 ==
    /\ EVDone("evaluar_prop_bet")
    /\ ret.kind = "analisis"
    /\ RGt(ret.probabilidad, Zero)
    /\ locals.valor_esperado = Zero
    /\ ret.recomendacion = "NO APOSTAR"

\* C6: decimal odds <= 1.0 are rejected by evaluar_prop_bet,
\* calcular_valor_esperado and analizar_prop: an error is signalled and no
\* expected value, recommendation or other partial result is returned.
Claim_C6 ==
    /\ (EVDone("evaluar_prop_bet") /\ RLe(call.cuota, One)) => ret.kind # "analisis"
    /\ (EVDone("calcular_valor_esperado") /\ RLe(call.cuota, One)) => ret.kind = "raise"
    /\ (EVDone("analizar_prop") /\ call.cuota.k = "num" /\ RLe(call.cuota.r, One)) =>
          ret.kind = "raise"

\* ----------------------------------- properties of the Monte Carlo
\* the valid (numeric) PTS values on record for the player
ValidosEnRegistro ==
    LET log == stats.logs[REGULAR_SEASON]
    IN Cardinality({i \in DOMAIN log.rows : log.rows[i]["PTS"].k = "num"})

\* C11: two analyses with identical inputs (same records, same arguments)
\* yield the identical probability, mean and draws, also when they are run
\* one after the other and when other predictors are built or run in
\* between: the draws do not depend on what earlier calls took from a
\* shared global generator.
Claim_C11 ==
    [][(/\ call.op = "analizar_prop"
        /\ call' = call
        /\ stats' = stats
        /\ ret.kind = "dict"
        /\ ret'.kind = "dict")
       => /\ ret'.probabilidad = ret.probabilidad
          /\ ret'.valor_esperado_stat = ret.valor_esperado_stat
          /\ ret'.simulaciones = ret.simulaciones]_vars

\* C12: with fewer than 2 valid historical values _obtener_datos_historicos
\* and _simular_valores raise ValueError, and so does analizar_prop: no
\* series, no simulation and no result is returned for 0 or 1 values.
Thm_C12 ==
    /\ (call.op = "obtener_datos_historicos" /\ ValidosEnRegistro < 2) =>
          ret = Raise("ValueError")
    /\ (call.op = "simular_valores" /\ Len(call.datos) < 2) =>
          ret = Raise("ValueError")
    /\ (call.op = "analizar_prop" /\ ValidosEnRegistro < 2) =>
          ret = Raise("ValueError")

Witness_C12 ==
    /\ call.op = "obtener_datos_historicos"
    /\ Len(stats.logs[REGULAR_SEASON].rows) = MaxRows
    /\ ValidosEnRegistro = 1
    /\ ret = Raise("ValueError")

\* C13: the Kelly fraction analizar_prop reports is (p*o - 1)/(o - 1) when
\* that is non-negative and 0 when it is negative; it is never below 0.
Claim_C13 ==
    (EVDone("analizar_prop") /\ ret.kind = "dict") =>
        LET p == ret.probabilidad
            o == ret.metricas_apuesta.cuota
            k == RDiv(RSub(RMul(p, o), One), RSub(o, One))
        IN /\ RLe(Zero, ret.metricas_apuesta.kelly)
           /\ ret.metricas_apuesta.kelly = IF RLt(k, Zero) THEN Zero ELSE k

\* ------------------------------------ properties of evaluar_prop_bet
\* the call got as far as looking the label up: the team has data, the
\* player was found and has games on record
LlegaAResolver ==
    /\ EVDone("evaluar_prop_bet")
    /\ locals.paso \notin {"no_hay_datos_equipo", "faltan_columnas_jugador",
                            "jugador_no_encontrado", "no_hay_datos_partidos"}

\* C14: labels that differ only in letter case or in the separator resolve
\* to the same column: 'Puntos + Rebotes', 'puntos + rebotes' and
\* 'Puntos+Rebotes' are all resolved, and all to PTS_REB.
Claim_C14 ==
    (/\ LlegaAResolver
     /\ call.prop \in {PUNTOS_MAS_REBOTES, PUNTOS_MAS_REBOTES_MINUSCULAS,
                        PUNTOS_MAS_REBOTES_SIN_ESPACIOS})
    => /\ locals.paso # "prop_no_encontrada"
       /\ locals.paso = "analisis" => locals.stat_columns = "PTS_REB"

\* C15: a label that matches no synonym is split on its separators and
\* resolved token by token: 'Rebotes + Puntos' is resolved, to the sum of
\* REB and PTS, and gives no unresolvable-prop report.
Claim_C15 ==
    (LlegaAResolver /\ call.prop = REBOTES_MAS_PUNTOS)
    => /\ locals.paso # "prop_no_encontrada"
       /\ locals.paso = "analisis" => locals.stat_columns \in {"PTS_REB", "REB_PTS"}

\* the season types the call asks for
TiposPedidos ==
    IF call.tipo_temporada.k = "list" THEN call.tipo_temporada.v
    ELSE <<call.tipo_temporada.v>>

\* the games on record for the season types asked for
PartidosEnRegistro ==
    LET RECURSIVE juntar(_)
        juntar(tipos) ==
            IF tipos = << >> THEN << >>
            ELSE stats.logs[Head(tipos)].rows \o juntar(Tail(tipos))
    IN juntar(TiposPedidos)

\* the columns the provider delivered for the season types asked for
ColumnasRegistro ==
    UNION {stats.logs[TiposPedidos[j]].columns :
             j \in {k \in DOMAIN TiposPedidos : stats.logs[TiposPedidos[k]].rows # << >>}}

\* the value of a cell, a missing one counting 0
ValorCelda(c) == IF c.k = "num" THEN c.v ELSE 0

\* C16: when the label resolves to PTS_REB, the records have no PTS_REB
\* column and have PTS and REB, evaluar_prop_bet creates PTS_REB before it
\* estimates, holding PTS + REB of the same record for every record; when
\* a base column is missing it estimates nothing and returns the report
\* that names the missing base columns.
Thm_C16 ==
    (/\ LlegaAResolver
     /\ call.prop \in {PUNTOS_MAS_REBOTES, PUNTOS_MAS_REBOTES_MINUSCULAS}
     /\ "PTS_REB" \notin ColumnasRegistro)
    => IF {"PTS", "REB"} \subseteq ColumnasRegistro
       THEN /\ locals.paso \in {"analisis", "no_hay_suficientes_datos"}
            /\ locals.stat_columns = "PTS_REB"
            /\ "PTS_REB" \in locals.datos_partidos.columns
            /\ Len(locals.datos_partidos.rows) = Len(PartidosEnRegistro)
            /\ \A i \in DOMAIN locals.datos_partidos.rows :
                  LET r == locals.datos_partidos.rows[i]
                  IN r["PTS_REB"] = Num(ValorCelda(r["PTS"]) + ValorCelda(r["REB"]))
       ELSE /\ ret.kind = "mensaje"
            /\ ret.texto = "faltan_columnas_base"
            /\ ret.missing_stats =
                  SelectSeq(<<"PTS", "REB">>, LAMBDA c : c \notin ColumnasRegistro)

Witness_C16 ==
    /\ LlegaAResolver
    /\ call.prop = PUNTOS_MAS_REBOTES
    /\ "PTS_REB" \notin ColumnasRegistro
    /\ locals.paso = "analisis"
    /\ \E i \in DOMAIN locals.datos_partidos.rows :
          /\ locals.datos_partidos.rows[i]["PTS"] = Num(MaxVal)
          /\ locals.datos_partidos.rows[i]["PTS_REB"] = Num(MaxVal + 1)

\* C17: synthesizing the composite columns is idempotent: a second
\* application of create_combined_stats, of the synthesis step of
\* evaluar_prop_bet or of that of obtener_estadisticas_jugador_por_partido
\* leaves the records exactly as the first application left them, no
\* column summed twice and none added.
Thm_C17 == pc = "twice" => (df = ret.df /\ df.columns = ret.df.columns)

Witness_C17 ==
    /\ pc = "twice"
    /\ call.op = "create_combined_stats"
    /\ "PTS_REB" \notin call.df.columns
    /\ "PTS_REB" \in df.columns
    /\ \E i \in DOMAIN df.rows : df.rows[i]["PTS_REB"] = Num(1 + 1)

\* the label TATUM is found by in the roster
TATUM_MINUSCULAS == <<"t", "a", "t", "u", "m">>

\* C18: when the provider has no record for any season type asked for (an
\* empty roster table, or an empty game log of the player found),
\* evaluar_prop_bet returns a 'no data' text report: it raises nothing and
\* computes no probability and no expected value.
Thm_C18 ==
    EVDone("evaluar_prop_bet") =>
        /\ (\A j \in DOMAIN TiposPedidos : stats.roster[TiposPedidos[j]].rows = << >>)
              => ret = Mensaje("no_hay_datos_equipo")
        /\ (/\ \E j \in DOMAIN TiposPedidos : stats.roster[TiposPedidos[j]].rows # << >>
            /\ call.jugador = TATUM_MINUSCULAS
            /\ PartidosEnRegistro = << >>)
              => ret = Mensaje("no_hay_datos_partidos")

Witness_C18 ==
    /\ EVDone("evaluar_prop_bet")
    /\ call.jugador = TATUM_MINUSCULAS
    /\ stats.roster[REGULAR_SEASON].rows # << >>
    /\ TiposPedidos = <<REGULAR_SEASON>>
    /\ PartidosEnRegistro = << >>
    /\ stats.logs[PLAYOFFS].rows # << >>
    /\ ret = Mensaje("no_hay_datos_partidos")

\* no key of stat_mapping is the label, its separator-normalised upper
\* case form or, in lower case, its lower case form
NoMapeable(prop) ==
    \A i \in DOMAIN stat_mapping :
        /\ stat_mapping[i][1] # prop
        /\ stat_mapping[i][1] # PropNormalizada(prop)
        /\ stat_mapping_norm[i] # normalize_name(prop)

\* the labels of the calls that no lookup of lines 451-462 finds
EtiquetasNoMapeables == {p \in PropsEval : NoMapeable(p)}

\* C19: when the label maps to no known statistic, evaluar_prop_bet returns
\* the report that the label could not be resolved, with the column names
\* of the player's game records; it estimates nothing, computes no expected
\* value and raises nothing.
Thm_C19 ==
    (LlegaAResolver /\ call.prop \in EtiquetasNoMapeables) =>
        /\ ret.kind = "mensaje"
        /\ ret.texto = "prop_no_encontrada"
        /\ ret.columnas_disponibles = ColumnasRegistro \cup {"TIPO_TEMPORADA"}
        /\ DOMAIN locals = {"op", "paso"}

Witness_C19 ==
    /\ LlegaAResolver
    /\ call.prop = MINUTOS
    /\ MINUTOS \in EtiquetasNoMapeables
    /\ ret.texto = "prop_no_encontrada"
    /\ {"PTS", "REB", "MATCHUP"} \subseteq ret.columnas_disponibles

\* the games on record that pass the location filter of the call, none
\* when the line is no number
PartidosValidos ==
    IF call.umbral.k # "num" THEN 0
    ELSE Cardinality({i \in DOMAIN PartidosEnRegistro :
                        call.filtro_local = TODOS
                        \/ IndicadorCoincide(PartidosEnRegistro[i], call.filtro_local)})

\* C20: once the column is there, evaluar_prop_bet returns the 'insufficient
\* data' report exactly when the estimator counts 0 valid games; with one
\* valid game or more, also when the condition held in none of them
\* (probability 0), it returns the full evaluation with expected value and
\* recommendation.
Thm_C20 ==
    (/\ LlegaAResolver
     /\ locals.paso \notin {"prop_no_encontrada", "faltan_columnas_base",
                             "columna_no_encontrada"})
    => /\ locals.paso \in {"analisis", "no_hay_suficientes_datos"}
       /\ locals.total_partidos = PartidosValidos
       /\ (ret = Mensaje("no_hay_suficientes_datos")) <=> (PartidosValidos = 0)
       /\ PartidosValidos >= 1 =>
             /\ ret.kind = "analisis"
             /\ ret.total_partidos = PartidosValidos
             /\ ret.valor_esperado_txt \in Round2Set(locals.valor_esperado)
             /\ ret.recomendacion \in {"APOSTAR", "NO APOSTAR"}

Witness_C20 ==
    /\ LlegaAResolver
    /\ locals.paso = "analisis"
    /\ ret.total_partidos >= 1
    /\ ret.veces_cumplido = 0
    /\ ret.probabilidad = Zero
    /\ ret.recomendacion = "NO APOSTAR"

\* ------------------------------ frame of the estimator on its input
\* C23: calcular_probabilidad_historica has no side effect on its input:
\* after any call the caller's record table has the same columns and the
\* same values, missing values included, as before the call.
Claim_C23 ==
    HistDone => (df.columns = call.df.columns /\ df.rows = call.df.rows)

\* ---------------------------------- properties of the pipeline
\* the stage of the pipeline a statement belongs to: 1 fetch records,
\* 2 resolve the label, 3 estimate, 4 insufficient-data check, 5 expected
\* value, 6 breakdown and report
EtapaDe(paso) ==
    CASE paso \in {"roster", "jugador", "logs", "partidos"} -> 1
      [] paso \in {"resolver", "columna"} -> 2
      [] paso = "estimar" -> 3
      [] paso = "insuficientes" -> 4
      [] paso = "valor" -> 5
      [] paso \in {"desglose", "informe"} -> 6

\* the statement that returns each report
PasoDelInforme(texto) ==
    CASE texto \in {"no_hay_datos_equipo", "faltan_columnas_jugador",
                     "jugador_no_encontrado"} -> "jugador"
      [] texto = "no_hay_datos_partidos" -> "partidos"
      [] texto = "prop_no_encontrada" -> "resolver"
      [] texto \in {"faltan_columnas_base", "columna_no_encontrada"} -> "columna"
      [] texto = "no_hay_suficientes_datos" -> "insuficientes"
      [] texto = "analisis" -> "informe"

EnPipeline == call.op = "evaluar_prop_bet" /\ pc # "ready"

PipelineDone == call.op = "evaluar_prop_bet" /\ pc = "done"

\* no season type asked for has games the provider delivers
SinRegistros ==
    \A j \in DOMAIN locals.tipos_temporada :
       \/ stats.respuesta[locals.tipos_temporada[j]] # RESPUESTA_OK
       \/ stats.logs[locals.tipos_temporada[j]].rows = << >>

\* C21: evaluar_prop_bet runs its steps in the fixed order fetch records,
\* resolve the label, estimate, insufficient-data check, expected value,
\* breakdown; no step is repeated (a loop runs its turns one after the
\* other); the provider is called in the fetch step only and once per
\* method and season type; the first failing step returns its report and
\* nothing runs after it; with no records and an unresolvable label the
\* report is the no-data one; the breakdown leaves the aggregate
\* probability as the estimate step computed it.
Thm_C21 ==
    EnPipeline =>
        LET pasos == locals.pasos
            pedidos == locals.pedidos
        IN /\ \A j, k \in DOMAIN pasos :
                 j < k => /\ EtapaDe(pasos[j]) <= EtapaDe(pasos[k])
                          /\ pasos[j] = pasos[k] =>
                                /\ pasos[j] \in {"roster", "logs", "desglose"}
                                /\ \A m \in j..k : pasos[m] = pasos[j]
           /\ Len(pedidos) = Cardinality({j \in DOMAIN pasos : pasos[j] \in {"roster", "logs"}})
           /\ \A j, k \in DOMAIN pedidos : j # k => pedidos[j] # pedidos[k]
           /\ (\E j \in DOMAIN pasos : pasos[j] = "desglose") =>
                 locals.probabilidad = locals.estimada
           /\ pc = "done" =>
                 /\ ret \in {r.ret : r \in evaluar_prop_bet(stats, call.equipo,
                                call.jugador, call.prop, call.umbral, call.cuota,
                                call.tipo_temporada, call.es_over, call.filtro_local)}
                 /\ ret.kind \in {"mensaje", "analisis"}
                 /\ pasos[Len(pasos)] = PasoDelInforme(ret.texto)
                 /\ ret.texto \in {"no_hay_datos_equipo", "faltan_columnas_jugador",
                                    "jugador_no_encontrado"} =>
                       \A j \in DOMAIN pedidos :
                          pedidos[j][1] = "obtener_estadisticas_jugadores_equipo"
                 /\ (locals.nombre_encontrado # << >> /\ SinRegistros) =>
                       ret = Mensaje("no_hay_datos_partidos")
                 /\ ret.kind = "analisis" => ret.probabilidad = locals.estimada

Witness_C21 ==
    /\ PipelineDone
    /\ SinRegistros
    /\ ResolverProp(call.prop) = ""
    /\ Len(locals.tipos_temporada) = 2
    /\ Len(locals.pedidos) = 4
    /\ ret = Mensaje("no_hay_datos_partidos")

\* C22: a failed or malformed provider response for one of the season types
\* asked for surfaces as an error in the outcome: no probability and
\* expected value computed over the other season types only is returned.
Claim_C22 ==
    (/\ PipelineDone
     /\ \E j \in DOMAIN locals.tipos_temporada :
           stats.respuesta[locals.tipos_temporada[j]] # RESPUESTA_OK)
    => ret.kind # "analisis"

\* C24: an empty player identifier is rejected as invalid input:
\* evaluar_prop_bet called with an empty player name produces no evaluation
\* for some player of the team.
Claim_C24 ==
    (PipelineDone /\ call.jugador = << >>) => ret.kind # "analisis"

\* ---------------------------------- properties of the sheet loader
\* the documented layouts: an optional header row, then pairs of a label
\* row and a row of odds
EsLayout(values) ==
    LET cuerpo == IF values # << >> /\ values[1] = FILA_CABECERA THEN Tail(values)
                  ELSE values
    IN /\ Len(cuerpo) % 2 = 0
       /\ \A i \in DOMAIN cuerpo :
             IF i % 2 = 1 THEN cuerpo[i] \in FilasEtiqueta ELSE cuerpo[i] \in FilasCuotas

\* the numbers written in the rows of the sheets
LineasDe(fila) ==
    CASE fila = FILA_PUNTOS -> <<Float(Rat(51, 2)), Float(Rat(51, 2))>>
      [] fila = FILA_ASISTENCIAS -> <<Float(Rat(11, 2)), None>>
      [] fila = FILA_SIN_LINEA -> <<None, None>>
      [] fila = FILA_CUOTAS -> <<Float(Rat(37, 20)), Float(Rat(39, 20))>>
      [] fila = FILA_CUOTA_MAS -> <<Float(Rat(2, 1)), None>>

\* one entry per label row that has a line, with the odds of the next row
RECURSIVE EntradasEsperadas(_)
EntradasEsperadas(cuerpo) ==
    IF Len(cuerpo) < 2 THEN << >>
    ELSE (IF LineasDe(cuerpo[1]) = <<None, None>> THEN << >>
          ELSE <<[prop_name |-> cuerpo[1][1],
                  over_line |-> LineasDe(cuerpo[1])[1],
                  under_line |-> LineasDe(cuerpo[1])[2],
                  over_odds |-> LineasDe(cuerpo[2])[1],
                  under_odds |-> LineasDe(cuerpo[2])[2]]>>)
         \o EntradasEsperadas(SubSeq(cuerpo, 3, Len(cuerpo)))

\* C25: for a sheet in either documented layout, with or without the header
\* row, load_odds returns exactly one entry per label row that has a valid
\* line, with that row's lines and the next row's odds; no label row is
\* consumed as the odds row of the row before it.
Claim_C25 ==
    (pc = "done" /\ call.op = "load_odds" /\ EsLayout(call.values)) =>
        ret.props_list =
            EntradasEsperadas(IF call.values # << >> /\ call.values[1] = FILA_CABECERA
                              THEN Tail(call.values) ELSE call.values)

\* ---------------------------------- properties of the odds cleaner
\* x rounded to 2 decimals
EsRedondeo(v, x) == v.k = "float" /\ v.r \in Round2Set(x)

\* C26: clean_odds converts American odds to decimal odds rounded to 2
\* decimals: '+N' gives 1 + N/100 and '-N' gives 1 + 100/N; a fraction
\* 'a/b' gives 1 + a/b and a plain decimal is returned unchanged.
Claim_C26 ==
    (pc = "done" /\ call.op = "clean_odds") =>
        LET c == stats.cuota_publicada
        IN /\ (c.formato = "americana" /\ c.positiva) =>
                 EsRedondeo(ret, RAdd(One, Rat(c.n, 100)))
           /\ (c.formato = "americana" /\ ~c.positiva) =>
                 EsRedondeo(ret, RAdd(One, Rat(100, c.n)))
           /\ (c.formato = "fraccionaria" /\ c.d # 0) =>
                 EsRedondeo(ret, RAdd(One, Rat(c.n, c.d)))
           /\ c.formato = "decimal" => ret = Float(Rat(c.n, c.d))

\* ---------------------------------- properties of _make_request
EnRequest == call.op = "make_request"

\* what is left to do: attempts, adapter retries, statements of the attempt
MedidaReq(l, p) ==
    (max_retries - l.attempt) * 100
    + (CASE p = "get" -> 50
         [] p = "http" -> (retry_total - l.reintentos) * 10 + 3
         [] p = "json" -> 2
         [] p = "except" -> 1
         [] OTHER -> 0)

\* the delays slept after the first n failed attempts
EsperasTras(n) == SubSeq(<<2, 4, 8>>, 1, n)

InvC27 ==
    EnRequest =>
        /\ locals.gets <= max_retries
        /\ locals.peticiones <= max_retries * (1 + retry_total)
        /\ Len(locals.fallos) <= max_retries
        /\ pc = "done" =>
              \/ /\ ret = [kind |-> "json", data |-> stats.payload]
                 /\ Len(locals.fallos) < max_retries
                 /\ locals.gets = Len(locals.fallos) + 1
                 /\ locals.sleeps = EsperasTras(Len(locals.fallos)) \o <<1>>
              \/ /\ ret = Raise("Exception")
                 /\ Len(locals.fallos) = max_retries
                 /\ locals.gets = max_retries
                 /\ locals.sleeps = <<2, 4>>

prop_mapping_dashboard ==
    << <<<<"P", "u", "n", "t", "o", "s">>, "PTS">>,
       <<<<"A", "s", "i", "s", "t", "e", "n", "c", "i", "a", "s">>, "AST">>,
       <<<<"R", "e", "b", "o", "t", "e", "s">>, "REB">>,
       <<<<"T", "r", "i", "p", "l", "e", "s">>, "FG3M">>,
       <<<<"R", "o", "b", "o", "s">>, "STL">>,
       <<<<"T", "a", "p", "o", "n", "e", "s">>, "BLK">>,
       <<<<"B", "l", "o", "q", "u", "e", "o", "s">>, "BLK">>,
       <<<<"P", "e-acute", "r", "d", "i", "d", "a", "s">>, "TOV">>,
       <<<<"P", "e-acute", "r", "d", "i", "d", "a", "s", " ", "d", "e", " ", "b", "a", "l", "o-acute", "n">>, "TOV">>,
       <<<<"P", "u", "n", "t", "o", "s", " ", "+", " ", "A", "s", "i", "s", "t", "e", "n", "c", "i", "a", "s">>, "PTS_AST">>,
       <<<<"P", "u", "n", "t", "o", "s", " ", "y", " ", "A", "s", "i", "s", "t", "e", "n", "c", "i", "a", "s">>, "PTS_AST">>,
       <<<<"P", "u", "n", "t", "o", "s", " ", "m", "a-acute", "s", " ", "A", "s", "i", "s", "t", "e", "n", "c", "i", "a", "s">>, "PTS_AST">>,
       <<<<"P", "u", "n", "t", "o", "s", " ", "+", " ", "R", "e", "b", "o", "t", "e", "s">>, "PTS_REB">>,
       <<<<"P", "u", "n", "t", "o", "s", " ", "y", " ", "R", "e", "b", "o", "t", "e", "s">>, "PTS_REB">>,
       <<<<"P", "u", "n", "t", "o", "s", " ", "m", "a-acute", "s", " ", "R", "e", "b", "o", "t", "e", "s">>, "PTS_REB">>,
       <<<<"A", "s", "i", "s", "t", "e", "n", "c", "i", "a", "s", " ", "+", " ", "R", "e", "b", "o", "t", "e", "s">>, "AST_REB">>,
       <<<<"A", "s", "i", "s", "t", "e", "n", "c", "i", "a", "s", " ", "y", " ", "R", "e", "b", "o", "t", "e", "s">>, "AST_REB">>,
       <<<<"A", "s", "i", "s", "t", "e", "n", "c", "i", "a", "s", " ", "m", "a-acute", "s", " ", "R", "e", "b", "o", "t", "e", "s">>, "AST_REB">>,
       <<<<"P", "u", "n", "t", "o", "s", " ", "+", " ", "A", "s", "i", "s", "t", "e", "n", "c", "i", "a", "s", " ", "+", " ", "R", "e", "b", "o", "t", "e", "s">>, "PTS_AST_REB">>,
       <<<<"P", "u", "n", "t", "o", "s", ",", " ", "A", "s", "i", "s", "t", "e", "n", "c", "i", "a", "s", " ", "y", " ", "R", "e", "b", "o", "t", "e", "s">>, "PTS_AST_REB">>,
       <<<<"P", "u", "n", "t", "o", "s", " ", "m", "a-acute", "s", " ", "A", "s", "i", "s", "t", "e", "n", "c", "i", "a", "s", " ", "m", "a-acute", "s", " ", "R", "e", "b", "o", "t", "e", "s">>, "PTS_AST_REB">>,
       <<<<"T", "a", "p", "o", "n", "e", "s", " ", "+", " ", "R", "o", "b", "o", "s">>, "STL_BLK">>,
       <<<<"T", "a", "p", "o", "n", "e", "s", " ", "y", " ", "R", "o", "b", "o", "s">>, "STL_BLK">>,
       <<<<"T", "a", "p", "o", "n", "e", "s", " ", "m", "a-acute", "s", " ", "R", "o", "b", "o", "s">>, "STL_BLK">>,
       <<<<"B", "l", "o", "q", "u", "e", "o", "s", " ", "+", " ", "R", "o", "b", "o", "s">>, "STL_BLK">>,
       <<<<"B", "l", "o", "q", "u", "e", "o", "s", " ", "y", " ", "R", "o", "b", "o", "s">>, "STL_BLK">>,
       <<<<"B", "l", "o", "q", "u", "e", "o", "s", " ", "m", "a-acute", "s", " ", "R", "o", "b", "o", "s">>, "STL_BLK">>,
       <<<<"P", "o", "i", "n", "t", "s">>, "PTS">>,
       <<<<"A", "s", "s", "i", "s", "t", "s">>, "AST">>,
       <<<<"R", "e", "b", "o", "u", "n", "d", "s">>, "REB">>,
       <<<<"T", "h", "r", "e", "e", "s">>, "FG3M">>,
       <<<<"S", "t", "e", "a", "l", "s">>, "STL">>,
       <<<<"B", "l", "o", "c", "k", "s">>, "BLK">>,
       <<<<"T", "u", "r", "n", "o", "v", "e", "r", "s">>, "TOV">>,
       <<<<"P", "o", "i", "n", "t", "s", " ", "+", " ", "A", "s", "s", "i", "s", "t", "s">>, "PTS_AST">>,
       <<<<"P", "o", "i", "n", "t", "s", " ", "a", "n", "d", " ", "A", "s", "s", "i", "s", "t", "s">>, "PTS_AST">>,
       <<<<"P", "o", "i", "n", "t", "s", " ", "&", " ", "A", "s", "s", "i", "s", "t", "s">>, "PTS_AST">>,
       <<<<"P", "o", "i", "n", "t", "s", " ", "+", " ", "R", "e", "b", "o", "u", "n", "d", "s">>, "PTS_REB">>,
       <<<<"P", "o", "i", "n", "t", "s", " ", "a", "n", "d", " ", "R", "e", "b", "o", "u", "n", "d", "s">>, "PTS_REB">>,
       <<<<"P", "o", "i", "n", "t", "s", " ", "&", " ", "R", "e", "b", "o", "u", "n", "d", "s">>, "PTS_REB">>,
       <<<<"A", "s", "s", "i", "s", "t", "s", " ", "+", " ", "R", "e", "b", "o", "u", "n", "d", "s">>, "AST_REB">>,
       <<<<"A", "s", "s", "i", "s", "t", "s", " ", "a", "n", "d", " ", "R", "e", "b", "o", "u", "n", "d", "s">>, "AST_REB">>,
       <<<<"A", "s", "s", "i", "s", "t", "s", " ", "&", " ", "R", "e", "b", "o", "u", "n", "d", "s">>, "AST_REB">>,
       <<<<"P", "o", "i", "n", "t", "s", " ", "+", " ", "A", "s", "s", "i", "s", "t", "s", " ", "+", " ", "R", "e", "b", "o", "u", "n", "d", "s">>, "PTS_AST_REB">>,
       <<<<"P", "o", "i", "n", "t", "s", ",", " ", "A", "s", "s", "i", "s", "t", "s", " ", "a", "n", "d", " ", "R", "e", "b", "o", "u", "n", "d", "s">>, "PTS_AST_REB">>,
       <<<<"P", "o", "i", "n", "t", "s", ",", " ", "A", "s", "s", "i", "s", "t", "s", " ", "&", " ", "R", "e", "b", "o", "u", "n", "d", "s">>, "PTS_AST_REB">>,
       <<<<"B", "l", "o", "c", "k", "s", " ", "+", " ", "S", "t", "e", "a", "l", "s">>, "STL_BLK">>,
       <<<<"B", "l", "o", "c", "k", "s", " ", "a", "n", "d", " ", "S", "t", "e", "a", "l", "s">>, "STL_BLK">>,
       <<<<"B", "l", "o", "c", "k", "s", " ", "&", " ", "S", "t", "e", "a", "l", "s">>, "STL_BLK">>,
       <<<<"P", "T", "S">>, "PTS">>,
       <<<<"A", "S", "T">>, "AST">>,
       <<<<"R", "E", "B">>, "REB">>,
       <<<<"F", "G", "3", "M">>, "FG3M">>,
       <<<<"S", "T", "L">>, "STL">>,
       <<<<"B", "L", "K">>, "BLK">>,
       <<<<"T", "O", "V">>, "TOV">>,
       <<<<"P", "T", "S", "+", "A", "S", "T">>, "PTS_AST">>,
       <<<<"P", "T", "S", "_", "A", "S", "T">>, "PTS_AST">>,
       <<<<"P", "T", "S", "+", "R", "E", "B">>, "PTS_REB">>,
       <<<<"P", "T", "S", "_", "R", "E", "B">>, "PTS_REB">>,
       <<<<"A", "S", "T", "+", "R", "E", "B">>, "AST_REB">>,
       <<<<"A", "S", "T", "_", "R", "E", "B">>, "AST_REB">>,
       <<<<"P", "T", "S", "+", "A", "S", "T", "+", "R", "E", "B">>, "PTS_AST_REB">>,
       <<<<"P", "T", "S", "_", "A", "S", "T", "_", "R", "E", "B">>, "PTS_AST_REB">>,
       <<<<"S", "T", "L", "+", "B", "L", "K">>, "STL_BLK">>,
       <<<<"S", "T", "L", "_", "B", "L", "K">>, "STL_BLK">> >>

\* the options of the selector "Tipo de Prop" (lines 502-521)
OpcionesTipoProp ==
    {<<"P", "u", "n", "t", "o", "s">>,
     <<"A", "s", "i", "s", "t", "e", "n", "c", "i", "a", "s">>,
     <<"R", "e", "b", "o", "t", "e", "s">>,
     <<"T", "r", "i", "p", "l", "e", "s">>,
     <<"R", "o", "b", "o", "s">>,
     <<"T", "a", "p", "o", "n", "e", "s">>,
     <<"B", "l", "o", "q", "u", "e", "o", "s">>,
     <<"P", "e-acute", "r", "d", "i", "d", "a", "s">>,
     <<"P", "e-acute", "r", "d", "i", "d", "a", "s", " ", "d", "e", " ", "b", "a", "l", "o-acute", "n">>,
     <<"P", "u", "n", "t", "o", "s", " ", "+", " ", "A", "s", "i", "s", "t", "e", "n", "c", "i", "a", "s">>,
     <<"P", "u", "n", "t", "o", "s", " ", "+", " ", "R", "e", "b", "o", "t", "e", "s">>,
     <<"A", "s", "i", "s", "t", "e", "n", "c", "i", "a", "s", " ", "+", " ", "R", "e", "b", "o", "t", "e", "s">>,
     <<"P", "u", "n", "t", "o", "s", " ", "+", " ", "A", "s", "i", "s", "t", "e", "n", "c", "i", "a", "s", " ", "+", " ", "R", "e", "b", "o", "t", "e", "s">>,
     <<"T", "a", "p", "o", "n", "e", "s", " ", "+", " ", "R", "o", "b", "o", "s">>,
     <<"B", "l", "o", "q", "u", "e", "o", "s", " ", "+", " ", "R", "o", "b", "o", "s">>}

TRIPLES == <<"T", "r", "i", "p", "l", "e", "s">>

\* the list of line 331
columnas_numericas ==
    <<"MIN", "PTS", "AST", "REB", "STL", "BLK", "TOV", "FG_PCT", "FG3_PCT", "FT_PCT">>

\* lines 330-351: groupby('PLAYER_NAME')[columnas_numericas].mean()
\* .reset_index(), then the composite columns that have all their parts
AgruparJugadores(d) ==
    LET presentes == SelectSeq(columnas_numericas, LAMBDA c : c \in d.columns)
        cols_num == {presentes[i] : i \in DOMAIN presentes}
        nombres == SortedStrs({d.rows[i]["PLAYER_NAME"] : i \in DOMAIN d.rows})
        media(n, c) == MeanColumn(WhereEq(d, "PLAYER_NAME", n), c)
        compuestas == {c \in DOMAIN ColSplit :
                         \A j \in DOMAIN ColSplit[c] : ColSplit[c][j] \in cols_num}
        RECURSIVE suma(_, _)
        suma(n, bases) ==
            IF bases = << >> THEN Zero
            ELSE RAdd(media(n, Head(bases)), suma(n, Tail(bases)))
        cols == {"PLAYER_NAME"} \cup cols_num \cup compuestas
    IN [columns |-> cols,
        rows |-> [i \in DOMAIN nombres |->
                    [c \in cols |->
                       IF c = "PLAYER_NAME" THEN nombres[i]
                       ELSE IF c \in cols_num THEN NumR(media(nombres[i], c))
                       ELSE NumR(suma(nombres[i], ColSplit[c]))]]]

\* f"{x:.2f}" of a value already rounded to hundredths
Formato2f(x) ==
    LET centesimas == (x[1] * 100) \div x[2]
        a == Abs(centesimas)
    IN (IF centesimas < 0 THEN <<"-">> ELSE << >>)
       \o Digitos(a \div 100) \o <<".">>
       \o <<DIGITOS[((a \div 10) % 10) + 1], DIGITOS[(a % 10) + 1]>>

\* the line of the report that carries the expected value (line 545)
LineaValorEsperado(ve_txt) ==
    <<"V", "a", "l", "o", "r", " ", "e", "s", "p", "e", "r", "a", "d", "o", " ",
      "p", "o", "r", " ", "u", "n", "i", "d", "a", "d", " ",
      "a", "p", "o", "s", "t", "a", "d", "a", ":", " ">> \o Formato2f(ve_txt)

\* re.search(r'[-+]?\d*\.\d+', linea).group(): the first match, from the
\* leftmost position where an optional sign, digits, a point and digits start
PrimerDecimal(linea) ==
    LET casa(i, j) ==
            LET t == SubSeq(linea, i, j)
                cuerpo == IF t # << >> /\ Head(t) \in {"-", "+"} THEN Tail(t) ELSE t
                punto == IndexOf(cuerpo, ".")
            IN /\ punto > 0 /\ punto < Len(cuerpo)
               /\ \A k \in DOMAIN cuerpo : k # punto => EsDigito(cuerpo[k])
        inicios == {i \in DOMAIN linea : \E j \in i..Len(linea) : casa(i, j)}
    IN IF inicios = {} THEN << >>
       ELSE LET i == CHOOSE x \in inicios : \A y \in inicios : x <= y
                fines == {j \in i..Len(linea) : casa(i, j)}
                j == CHOOSE x \in fines : \A y \in fines : x >= y
            IN SubSeq(linea, i, j)

\* f"{p:.1%}" followed by float(group) / 100: p to the nearest thousandth
Round3Set(p) ==
    LET n == p[1] * 1000
        d == p[2]
        q == n \div d
        r == n - q * d
    IN IF 2 * r < d THEN {Rat(q, 1000)}
       ELSE IF 2 * r > d THEN {Rat(q + 1, 1000)}
       ELSE {Rat(q, 1000), Rat(q + 1, 1000)}

\* the marks of the column 'recomendacion'
MARCA_SI == "check"

MARCA_NO == "cross"

\* lines 620-640: what the handler reads back from the text of the report.
\* A text without the line of the expected value leaves valor_esperado None
\* and None > 0 raises TypeError.
nueva_apuesta(resultado, jugador_sel, tipo_prop, umbral, cuota, es_over) ==
    IF resultado.kind # "analisis" THEN {Raise("TypeError")}
    ELSE LET valor_esperado ==
                 ParseFloat(PrimerDecimal(LineaValorEsperado(resultado.valor_esperado_txt)))
         IN {[kind |-> "apuesta",
              jugador |-> jugador_sel,
              tipo |-> tipo_prop,
              linea |-> <<IF es_over THEN ">" ELSE "<", umbral>>,
              cuota |-> cuota,
              probabilidad |-> probabilidad,
              valor_esperado |-> valor_esperado,
              recomendacion |-> IF RGt(valor_esperado, Zero) THEN MARCA_SI ELSE MARCA_NO] :
             probabilidad \in Round3Set(resultado.probabilidad)}

\* -------------------------------------- dashboard.py: the batch analysis
\* normalize_player_name, for names whose words are one space apart
normalize_player_name(name) ==
    LET sin_signos == StrReplace(StrReplace(StrLower(name), <<".">>, << >>), <<",">>, << >>)
        letras == <<"a", "b", "c", "d", "e", "f", "g", "h", "i", "j", "k", "l", "m",
                    "n", "o", "p", "q", "r", "s", "t", "u", "v", "w", "x", "y", "z">>
    IN StrStrip(SelectSeq(StrStrip(sin_signos),
                          LAMBDA c : c = " " \/ IndexOf(letras, c) > 0))

\* find_player_in_team, step 1: the rows whose normalised name is the
\* normalised name looked for
find_player_in_team(d, player_name) ==
    [d EXCEPT !.rows =
        SelectSeq(d.rows,
                  LAMBDA r : normalize_player_name(r["PLAYER_NAME"])
                             = normalize_player_name(player_name))]

\* the dict stat_mapping of lines 968-1063, in insertion order
stat_mapping_lote ==
    << <<<<"P", "u", "n", "t", "o", "s">>, "PTS">>,
       <<<<"A", "s", "i", "s", "t", "e", "n", "c", "i", "a", "s">>, "AST">>,
       <<<<"R", "e", "b", "o", "t", "e", "s">>, "REB">>,
       <<<<"T", "r", "i", "p", "l", "e", "s">>, "FG3M">>,
       <<<<"R", "o", "b", "o", "s">>, "STL">>,
       <<<<"T", "a", "p", "o", "n", "e", "s">>, "BLK">>,
       <<<<"B", "l", "o", "q", "u", "e", "o", "s">>, "BLK">>,
       <<<<"P", "e-acute", "r", "d", "i", "d", "a", "s">>, "TOV">>,
       <<<<"P", "e-acute", "r", "d", "i", "d", "a", "s", " ", "d", "e", " ", "b", "a", "l", "o-acute", "n">>, "TOV">>,
       <<<<"P", "u", "n", "t", "o", "s", " ", "+", " ", "A", "s", "i", "s", "t", "e", "n", "c", "i", "a", "s">>, "PTS_AST">>,
       <<<<"P", "u", "n", "t", "o", "s", " ", "y", " ", "A", "s", "i", "s", "t", "e", "n", "c", "i", "a", "s">>, "PTS_AST">>,
       <<<<"P", "u", "n", "t", "o", "s", " ", "m", "a-acute", "s", " ", "A", "s", "i", "s", "t", "e", "n", "c", "i", "a", "s">>, "PTS_AST">>,
       <<<<"P", "u", "n", "t", "o", "s", "+", "A", "s", "i", "s", "t", "e", "n", "c", "i", "a", "s">>, "PTS_AST">>,
       <<<<"P", "u", "n", "t", "o", "s", " ", "+", " ", "R", "e", "b", "o", "t", "e", "s">>, "PTS_REB">>,
       <<<<"P", "u", "n", "t", "o", "s", " ", "y", " ", "R", "e", "b", "o", "t", "e", "s">>, "PTS_REB">>,
       <<<<"P", "u", "n", "t", "o", "s", " ", "m", "a-acute", "s", " ", "R", "e", "b", "o", "t", "e", "s">>, "PTS_REB">>,
       <<<<"P", "u", "n", "t", "o", "s", "+", "R", "e", "b", "o", "t", "e", "s">>, "PTS_REB">>,
       <<<<"A", "s", "i", "s", "t", "e", "n", "c", "i", "a", "s", " ", "+", " ", "R", "e", "b", "o", "t", "e", "s">>, "AST_REB">>,
       <<<<"A", "s", "i", "s", "t", "e", "n", "c", "i", "a", "s", " ", "y", " ", "R", "e", "b", "o", "t", "e", "s">>, "AST_REB">>,
       <<<<"A", "s", "i", "s", "t", "e", "n", "c", "i", "a", "s", " ", "m", "a-acute", "s", " ", "R", "e", "b", "o", "t", "e", "s">>, "AST_REB">>,
       <<<<"A", "s", "i", "s", "t", "e", "n", "c", "i", "a", "s", "+", "R", "e", "b", "o", "t", "e", "s">>, "AST_REB">>,
       <<<<"P", "u", "n", "t", "o", "s", " ", "+", " ", "A", "s", "i", "s", "t", "e", "n", "c", "i", "a", "s", " ", "+", " ", "R", "e", "b", "o", "t", "e", "s">>, "PTS_AST_REB">>,
       <<<<"P", "u", "n", "t", "o", "s", ",", " ", "A", "s", "i", "s", "t", "e", "n", "c", "i", "a", "s", " ", "y", " ", "R", "e", "b", "o", "t", "e", "s">>, "PTS_AST_REB">>,
       <<<<"P", "u", "n", "t", "o", "s", " ", "m", "a-acute", "s", " ", "A", "s", "i", "s", "t", "e", "n", "c", "i", "a", "s", " ", "m", "a-acute", "s", " ", "R", "e", "b", "o", "t", "e", "s">>, "PTS_AST_REB">>,
       <<<<"P", "u", "n", "t", "o", "s", "+", "A", "s", "i", "s", "t", "e", "n", "c", "i", "a", "s", "+", "R", "e", "b", "o", "t", "e", "s">>, "PTS_AST_REB">>,
       <<<<"T", "a", "p", "o", "n", "e", "s", " ", "+", " ", "R", "o", "b", "o", "s">>, "STL_BLK">>,
       <<<<"T", "a", "p", "o", "n", "e", "s", " ", "y", " ", "R", "o", "b", "o", "s">>, "STL_BLK">>,
       <<<<"T", "a", "p", "o", "n", "e", "s", " ", "m", "a-acute", "s", " ", "R", "o", "b", "o", "s">>, "STL_BLK">>,
       <<<<"B", "l", "o", "q", "u", "e", "o", "s", " ", "+", " ", "R", "o", "b", "o", "s">>, "STL_BLK">>,
       <<<<"B", "l", "o", "q", "u", "e", "o", "s", " ", "y", " ", "R", "o", "b", "o", "s">>, "STL_BLK">>,
       <<<<"B", "l", "o", "q", "u", "e", "o", "s", " ", "m", "a-acute", "s", " ", "R", "o", "b", "o", "s">>, "STL_BLK">>,
       <<<<"T", "a", "p", "o", "n", "e", "s", "+", "R", "o", "b", "o", "s">>, "STL_BLK">>,
       <<<<"B", "l", "o", "q", "u", "e", "o", "s", "+", "R", "o", "b", "o", "s">>, "STL_BLK">>,
       <<<<"P", "o", "i", "n", "t", "s">>, "PTS">>,
       <<<<"A", "s", "s", "i", "s", "t", "s">>, "AST">>,
       <<<<"R", "e", "b", "o", "u", "n", "d", "s">>, "REB">>,
       <<<<"T", "h", "r", "e", "e", "s">>, "FG3M">>,
       <<<<"S", "t", "e", "a", "l", "s">>, "STL">>,
       <<<<"B", "l", "o", "c", "k", "s">>, "BLK">>,
       <<<<"T", "u", "r", "n", "o", "v", "e", "r", "s">>, "TOV">>,
       <<<<"P", "o", "i", "n", "t", "s", " ", "+", " ", "A", "s", "s", "i", "s", "t", "s">>, "PTS_AST">>,
       <<<<"P", "o", "i", "n", "t", "s", " ", "a", "n", "d", " ", "A", "s", "s", "i", "s", "t", "s">>, "PTS_AST">>,
       <<<<"P", "o", "i", "n", "t", "s", " ", "&", " ", "A", "s", "s", "i", "s", "t", "s">>, "PTS_AST">>,
       <<<<"P", "o", "i", "n", "t", "s", "+", "A", "s", "s", "i", "s", "t", "s">>, "PTS_AST">>,
       <<<<"P", "o", "i", "n", "t", "s", " ", "+", " ", "R", "e", "b", "o", "u", "n", "d", "s">>, "PTS_REB">>,
       <<<<"P", "o", "i", "n", "t", "s", " ", "a", "n", "d", " ", "R", "e", "b", "o", "u", "n", "d", "s">>, "PTS_REB">>,
       <<<<"P", "o", "i", "n", "t", "s", " ", "&", " ", "R", "e", "b", "o", "u", "n", "d", "s">>, "PTS_REB">>,
       <<<<"P", "o", "i", "n", "t", "s", "+", "R", "e", "b", "o", "u", "n", "d", "s">>, "PTS_REB">>,
       <<<<"A", "s", "s", "i", "s", "t", "s", " ", "+", " ", "R", "e", "b", "o", "u", "n", "d", "s">>, "AST_REB">>,
       <<<<"A", "s", "s", "i", "s", "t", "s", " ", "a", "n", "d", " ", "R", "e", "b", "o", "u", "n", "d", "s">>, "AST_REB">>,
       <<<<"A", "s", "s", "i", "s", "t", "s", " ", "&", " ", "R", "e", "b", "o", "u", "n", "d", "s">>, "AST_REB">>,
       <<<<"A", "s", "s", "i", "s", "t", "s", "+", "R", "e", "b", "o", "u", "n", "d", "s">>, "AST_REB">>,
       <<<<"P", "o", "i", "n", "t", "s", " ", "+", " ", "A", "s", "s", "i", "s", "t", "s", " ", "+", " ", "R", "e", "b", "o", "u", "n", "d", "s">>, "PTS_AST_REB">>,
       <<<<"P", "o", "i", "n", "t", "s", ",", " ", "A", "s", "s", "i", "s", "t", "s", " ", "a", "n", "d", " ", "R", "e", "b", "o", "u", "n", "d", "s">>, "PTS_AST_REB">>,
       <<<<"P", "o", "i", "n", "t", "s", ",", " ", "A", "s", "s", "i", "s", "t", "s", " ", "&", " ", "R", "e", "b", "o", "u", "n", "d", "s">>, "PTS_AST_REB">>,
       <<<<"P", "o", "i", "n", "t", "s", "+", "A", "s", "s", "i", "s", "t", "s", "+", "R", "e", "b", "o", "u", "n", "d", "s">>, "PTS_AST_REB">>,
       <<<<"B", "l", "o", "c", "k", "s", " ", "+", " ", "S", "t", "e", "a", "l", "s">>, "STL_BLK">>,
       <<<<"B", "l", "o", "c", "k", "s", " ", "a", "n", "d", " ", "S", "t", "e", "a", "l", "s">>, "STL_BLK">>,
       <<<<"B", "l", "o", "c", "k", "s", " ", "&", " ", "S", "t", "e", "a", "l", "s">>, "STL_BLK">>,
       <<<<"B", "l", "o", "c", "k", "s", "+", "S", "t", "e", "a", "l", "s">>, "STL_BLK">>,
       <<<<"P", "T", "S">>, "PTS">>,
       <<<<"A", "S", "T">>, "AST">>,
       <<<<"R", "E", "B">>, "REB">>,
       <<<<"F", "G", "3", "M">>, "FG3M">>,
       <<<<"S", "T", "L">>, "STL">>,
       <<<<"B", "L", "K">>, "BLK">>,
       <<<<"T", "O", "V">>, "TOV">>,
       <<<<"P", "T", "S", "+", "A", "S", "T">>, "PTS_AST">>,
       <<<<"P", "T", "S", "_", "A", "S", "T">>, "PTS_AST">>,
       <<<<"P", "T", "S", "+", "R", "E", "B">>, "PTS_REB">>,
       <<<<"P", "T", "S", "_", "R", "E", "B">>, "PTS_REB">>,
       <<<<"A", "S", "T", "+", "R", "E", "B">>, "AST_REB">>,
       <<<<"A", "S", "T", "_", "R", "E", "B">>, "AST_REB">>,
       <<<<"P", "T", "S", "+", "A", "S", "T", "+", "R", "E", "B">>, "PTS_AST_REB">>,
       <<<<"P", "T", "S", "_", "A", "S", "T", "_", "R", "E", "B">>, "PTS_AST_REB">>,
       <<<<"S", "T", "L", "+", "B", "L", "K">>, "STL_BLK">>,
       <<<<"S", "T", "L", "_", "B", "L", "K">>, "STL_BLK">> >>

\* prop_name.lower().replace(' ', '').replace('+', '_')
NormalizarPropLote(prop_name) ==
    StrReplace(StrReplace(StrLower(prop_name), <<" ">>, << >>), <<"+">>, <<"_">>)

\* lines 1066-1076: the column of the label, "" when there is none
MapearProp(prop_name0) ==
    LET prop_name == StrStrip(prop_name0)
        directa == DictGet(stat_mapping_lote, prop_name)
        prop_name_norm == NormalizarPropLote(prop_name)
        iguales == {i \in DOMAIN stat_mapping_lote :
                      NormalizarPropLote(stat_mapping_lote[i][1]) = prop_name_norm}
    IN IF directa # "" THEN directa
       ELSE IF iguales # {}
            THEN stat_mapping_lote[CHOOSE i \in iguales : \A j \in iguales : i <= j][2]
            ELSE ""

\* float(prop['over_line']): the lines of the sheets of the model are whole
UmbralLote(linea) == Num(linea.r[1] \div linea.r[2])

\* f"{nombre_jugador}_{prop['prop_name']}_over_{prop['over_line']}"
PropKey(nombre_jugador, prop, lado, linea) == <<nombre_jugador, prop.prop_name, lado, linea>>

\* if prob > 0 and total > 0
HayAnalisis(prob, total) == RGt(prob, Zero) /\ total > 0

\* lines 1104-1140 (over) and 1146-1186 (under): one leg of a prop that has
\* its line and its odds and whose key is new.  e is the state of the loop:
\* the game log, the analyses, the keys seen; r is what
\* calcular_probabilidad_historica returns and leaves of the game log.
AnalizarLadoNuevo(e, r, prop_key, jugador, prop, linea, cuota, es_over) ==
    LET prob == r.ret.probabilidad
        total == r.ret.total_partidos
        valor_esperado == RSub(RMul(prob, RSub(cuota.r, One)), RMul(RSub(One, prob), One))
        entrada == [kind |-> "lote",
                    jugador |-> jugador,
                    tipo |-> prop.prop_name,
                    linea |-> <<IF es_over THEN ">" ELSE "<", linea>>,
                    cuota |-> cuota,
                    probabilidad |-> prob,
                    valor_esperado |-> valor_esperado,
                    recomendacion |-> IF RGt(valor_esperado, Zero) THEN MARCA_SI ELSE MARCA_NO,
                    partidos |-> total]
    IN [e EXCEPT !.props_procesadas = @ \cup {prop_key},
                 !.datos_partidos = r.df,
                 !.analisis_props = IF HayAnalisis(prob, total)
                                    THEN Append(@, entrada) ELSE @]

\* one leg of a prop: nothing is done without the line or the odds, nor for
\* a key that was seen
AnalizarLado(e0, jugador, nombre_jugador, prop, stat_name, es_over) ==
    LET linea == IF es_over THEN prop.over_line ELSE prop.under_line
        cuota == IF es_over THEN prop.over_odds ELSE prop.under_odds
        prop_key == PropKey(nombre_jugador, prop, IF es_over THEN "over" ELSE "under", linea)
    IN IF linea = None \/ cuota = None THEN e0
       ELSE CHOOSE fin \in UNION {
              {IF prop_key \in e.props_procesadas THEN e
               ELSE IF ~es_over /\ stat_name \notin e.datos_partidos.columns
               THEN [e EXCEPT !.props_procesadas = @ \cup {prop_key}]
               ELSE AnalizarLadoNuevo(e, r, prop_key, jugador, prop, linea, cuota, es_over)
               : r \in {calcular_probabilidad_historica(e.datos_partidos, stat_name,
                                                       UmbralLote(linea), es_over, TODOS)}}
              : e \in {e0}} : TRUE

\* lines 963-1190: the loop over the props of one player
RECURSIVE AnalizarProps(_, _, _, _)
AnalizarProps(e0, jugador, nombre_jugador, props) ==
    IF props = << >> THEN e0
    ELSE CHOOSE fin \in {
    LET prop == Head(props)
        stat_name == MapearProp(prop.prop_name)
        falta == stat_name \notin e.datos_partidos.columns
        combinada == stat_name \in DOMAIN ColSplit
        stats_base == IF combinada THEN ColSplit[stat_name] ELSE << >>
        completas == \A j \in DOMAIN stats_base : stats_base[j] \in e.datos_partidos.columns
        aviso == [e EXCEPT !.avisos = @ + 1]
        e1 == IF falta
              THEN [e EXCEPT !.datos_partidos = ColumnaSuma(@, stat_name, stats_base)]
              ELSE e
        e2 == AnalizarLado(e1, jugador, nombre_jugador, prop, stat_name, TRUE)
        e3 == AnalizarLado(e2, jugador, nombre_jugador, prop, stat_name, FALSE)
    IN IF stat_name = "" THEN AnalizarProps(aviso, jugador, nombre_jugador, Tail(props))
       ELSE IF falta /\ ~(combinada /\ completas)
       THEN AnalizarProps(aviso, jugador, nombre_jugador, Tail(props))
       ELSE AnalizarProps(e3, jugador, nombre_jugador, Tail(props))
    : e \in {e0}} : TRUE

\* df_analisis.drop_duplicates(subset=[every column but 'recomendacion'])
RECURSIVE drop_duplicates(_)
drop_duplicates(entradas) ==
    IF entradas = << >> THEN << >>
    ELSE LET n == Len(entradas)
             antes == SubSeq(entradas, 1, n - 1)
         IN IF \E i \in DOMAIN antes : antes[i] = entradas[n]
            THEN drop_duplicates(antes)
            ELSE Append(drop_duplicates(antes), entradas[n])

\* lines 862-1204 for the one player of the document, whose sheet name has
\* no comma, with the default selection ['Regular Season'].  The result is
\* the history the run leaves and the counts of st.warning and st.error calls.
analizar_props_cargadas(st, jugador, props) ==
    LET nombre_jugador == jugador
        df_equipo == obtener_estadisticas_jugadores_equipo(st, EQUIPO, REGULAR_SEASON)
        df_match == IF DfEmpty(df_equipo) \/ "PLAYER_NAME" \notin df_equipo.columns
                    THEN EmptyDF
                    ELSE find_player_in_team(df_equipo, nombre_jugador)
        player_id == df_match.rows[1]["PLAYER_ID"]
        datos_partidos0 == get_player_game_logs(st, player_id, REGULAR_SEASON)
        e0 == [datos_partidos |-> create_combined_stats(datos_partidos0),
               analisis_props |-> << >>,
               props_procesadas |-> {},
               avisos |-> 0]
        fin == IF DfEmpty(df_match) \/ DfEmpty(datos_partidos0)
               THEN [e0 EXCEPT !.avisos = 1, !.datos_partidos = EmptyDF]
               ELSE AnalizarProps(e0, jugador, nombre_jugador, props)
    IN [historial_apuestas |-> drop_duplicates(fin.analisis_props),
        avisos |-> fin.avisos,
        errores |-> 0]

\* ------------------------------------------------ the inputs of SpecDash
ColumnasBase == {"MIN", "PTS", "AST", "REB", "STL", "BLK", "TOV", "FG3M"}

\* the roster table of the provider: every base column for both players
RosterDash ==
    [columns |-> {"PLAYER_NAME", "PLAYER_ID"} \cup ColumnasBase,
     rows |-> <<[c \in {"PLAYER_NAME", "PLAYER_ID"} \cup ColumnasBase |->
                   IF c = "PLAYER_NAME" THEN TATUM
                   ELSE IF c = "PLAYER_ID" THEN "1628369" ELSE Num(2)],
                [c \in {"PLAYER_NAME", "PLAYER_ID"} \cup ColumnasBase |->
                   IF c = "PLAYER_NAME"
                   THEN <<"J", "a", "y", "l", "e", "n", " ", "B", "r", "o", "w", "n">>
                   ELSE IF c = "PLAYER_ID" THEN "1627759" ELSE Num(1)]>>]

\* the same table without the blocks
RosterSinTapones ==
    [columns |-> RosterDash.columns \ {"BLK"},
     rows |-> [i \in DOMAIN RosterDash.rows |->
                 [c \in RosterDash.columns \ {"BLK"} |-> RosterDash.rows[i][c]]]]

RostersDash == {EmptyDF, RosterDash, RosterSinTapones}

\* a game log with every base column; each game has the same value in all
MkLogDash(valores) ==
    [columns |-> {"MATCHUP"} \cup ColumnasBase,
     rows |-> [i \in DOMAIN valores |->
                 [c \in {"MATCHUP"} \cup ColumnasBase |->
                    IF c = "MATCHUP" THEN MATCHUP_HOME ELSE Num(valores[i])]]]

LogsDash == {EmptyDF, MkLogDash(<<2, 0, 0>>), MkLogDash(<<0, 0>>), MkLogDash(<<2, 2>>)}

StatsDash ==
    {[roster |-> [t \in Tipos |-> IF t = REGULAR_SEASON THEN r ELSE EmptyDF],
      logs |-> [t \in Tipos |-> IF t = REGULAR_SEASON THEN l ELSE EmptyDF],
      respuesta |-> TodasOk] :
        r \in RostersDash, l \in LogsDash}

\* st.number_input(min_value=1.01, value=1.90, step=0.05)
CuotasDash == {Rat(190, 100), Rat(301, 100)}

\* st.number_input(min_value=0.5, step=0.5)
UmbralesDash == {Num(1)}

\* the rows of the sheets of a batch run
FILA_LOTE_PUNTOS == <<PUNTOS, <<"1">>, <<"1">>>>

FILA_LOTE_TRIPLES == <<TRIPLES, <<"1">>>>

FILA_LOTE_MINUTOS == <<MINUTOS, <<"1">>, <<"1">>>>

FILA_LOTE_CUOTAS == <<<< >>, <<"2">>, <<"2">>>>

FILA_LOTE_CUOTA_MAS == <<<< >>, <<"3", ".", "0", "1">>>>

FILA_LOTE_SIN_CUOTAS == <<<< >>>>

FilasLoteEtiqueta == {FILA_LOTE_PUNTOS, FILA_LOTE_TRIPLES, FILA_LOTE_MINUTOS}

FilasLoteCuotas == {FILA_LOTE_CUOTAS, FILA_LOTE_CUOTA_MAS, FILA_LOTE_SIN_CUOTAS}

HojasLote ==
    {<< >>}
    \cup {<<l, c>> : l \in FilasLoteEtiqueta, c \in FilasLoteCuotas}
    \cup {<<FILA_LOTE_PUNTOS, c, FILA_LOTE_TRIPLES, c>> : c \in FilasLoteCuotas}
    \cup {<<FILA_LOTE_PUNTOS, FILA_LOTE_CUOTAS, FILA_LOTE_PUNTOS, FILA_LOTE_CUOTAS>>}

\* ------------------------------------------- specification SpecDash
\* One session of the dashboard: the page loads the roster table, the user
\* presses 'Analizar Apuesta' and 'Recargar y Analizar Props'.
LocalsDash ==
    [op |-> "dashboard",
     df_jugadores |-> EmptyDF,
     historial_apuestas |-> << >>,
     odds_data |-> << >>,
     evaluado |-> FALSE,
     avisos |-> 0,
     errores |-> 0]

InitDash ==
    /\ pc = "ready"
    /\ df = EmptyDF
    /\ stats \in StatsDash
    /\ call = NoCall
    /\ ret = NoRet
    /\ locals = LocalsDash
    /\ np_random = NoRng

\* lines 306-351: the roster table of the selected season types, averaged
\* per player; st.stop() when there is nothing to show
CargarEstadisticas ==
    /\ pc = "ready"
    /\ LET df_jugadores ==
               AcumularTipos([t \in Tipos |->
                                obtener_estadisticas_jugadores_equipo(stats, EQUIPO, t)],
                             <<REGULAR_SEASON>>)
       IN IF DfEmpty(df_jugadores)
          THEN /\ pc' = "stop"
               /\ locals' = locals
          ELSE /\ pc' = "cargado"
               /\ locals' = [locals EXCEPT !.df_jugadores =
                                IF "PLAYER_NAME" \in df_jugadores.columns
                                THEN AgruparJugadores(df_jugadores)
                                ELSE df_jugadores]
    /\ UNCHANGED <<df, stats, call, ret, np_random>>

\* lines 589-644: the button 'Analizar Apuesta'
AnalizarApuesta ==
    /\ pc = "cargado"
    /\ \E jugador_sel \in {locals.df_jugadores.rows[i]["PLAYER_NAME"] :
                             i \in DOMAIN locals.df_jugadores.rows},
          tipo_prop \in OpcionesTipoProp, umbral \in UmbralesDash,
          cuota \in CuotasDash, es_over \in BOOLEAN :
         LET columna_prop == DictGet(prop_mapping_dashboard, tipo_prop)
             pulsado == [op |-> "analizar_manual", jugador |-> jugador_sel,
                         prop |-> tipo_prop, columna_prop |-> columna_prop,
                         umbral |-> umbral, cuota |-> cuota, es_over |-> es_over]
         IN /\ call' = pulsado
            /\ IF columna_prop \notin locals.df_jugadores.columns
               THEN \* st.error(...); st.stop()
                    /\ ret' = NoRet
                    /\ locals' = [locals EXCEPT !.evaluado = FALSE, !.errores = @ + 1]
               ELSE \E r \in evaluar_prop_bet(stats, EQUIPO, jugador_sel, tipo_prop,
                                             umbral, cuota, ListArg(<<REGULAR_SEASON>>),
                                             es_over, TODOS) :
                      \E a \in nueva_apuesta(r.ret, jugador_sel, tipo_prop, umbral,
                                             cuota, es_over) :
                         /\ ret' = r.ret
                         /\ locals' =
                              IF a.kind = "apuesta"
                              THEN [locals EXCEPT !.evaluado = TRUE,
                                                  !.historial_apuestas = Append(@, a)]
                              ELSE [locals EXCEPT !.evaluado = TRUE, !.errores = @ + 1]
    /\ pc' = "analizado"
    /\ UNCHANGED <<df, stats, np_random>>

\* lines 832-1204: the button 'Recargar y Analizar Props'
RecargarYAnalizar ==
    /\ pc \in {"cargado", "analizado"}
    /\ \E values \in HojasLote :
         \E odds_data \in {load_odds(values)} :
         \E lote \in {analizar_props_cargadas(stats, TATUM, odds_data.props_list)} :
            /\ call' = [op |-> "reload_analyze_odds", values |-> values]
            /\ ret' = NoRet
            /\ locals' =
                 IF ~odds_data.guardada
                 THEN \* st.error(...); st.stop()
                      [locals EXCEPT !.odds_data = << >>, !.errores = @ + 1]
                 ELSE [locals EXCEPT !.odds_data = odds_data.props_list,
                                     !.historial_apuestas = lote.historial_apuestas,
                                     !.avisos = lote.avisos,
                                     !.errores = lote.errores]
    /\ pc' = "lote"
    /\ UNCHANGED <<df, stats, np_random>>

NextDash == CargarEstadisticas \/ AnalizarApuesta \/ RecargarYAnalizar

SpecDash == InitDash /\ [][NextDash]_vars

\* ------------------------------------------ properties of the dashboard
\* the last press of 'Analizar Apuesta' got as far as evaluar_prop_bet
AnalisisIndividual == pc = "analizado" /\ call.op = "analizar_manual"

\* C28: after an individual analysis the history holds a positive mark
\* exactly when the report says APOSTAR, and a report that is an error
\* message adds no entry to the history.
Claim_C28 ==
    (AnalisisIndividual /\ locals.evaluado) =>
        /\ ret.kind = "analisis" =>
              /\ Len(locals.historial_apuestas) = 1
              /\ (locals.historial_apuestas[1].recomendacion = MARCA_SI
                    <=> ret.recomendacion = "APOSTAR")
        /\ ret.kind # "analisis" => locals.historial_apuestas = << >>

\* the half of C28 about error reports
SinEntradaTrasError ==
    (AnalisisIndividual /\ locals.evaluado /\ ret.kind # "analisis")
        => locals.historial_apuestas = << >>

\* C29: when the roster table of the provider has every base column, any
\* prop type of the selector gets past the check against the averaged table
\* and evaluar_prop_bet is called.
Claim_C29 ==
    (AnalisisIndividual /\ ColumnasBase \subseteq stats.roster[REGULAR_SEASON].columns)
        => locals.evaluado

\* C29 for every prop type of the selector but 'Triples'
Claim_C29_sin_triples ==
    (AnalisisIndividual /\ ColumnasBase \subseteq stats.roster[REGULAR_SEASON].columns
       /\ call.prop # TRIPLES)
        => locals.evaluado

\* a batch run that found props in the document
LoteHecho == pc = "lote" /\ locals.odds_data # << >>

\* the entries of the history for one leg of a loaded prop
EntradasDelLado(prop, es_over) ==
    LET linea == <<IF es_over THEN ">" ELSE "<",
                   IF es_over THEN prop.over_line ELSE prop.under_line>>
    IN {i \in DOMAIN locals.historial_apuestas :
          /\ locals.historial_apuestas[i].tipo = prop.prop_name
          /\ locals.historial_apuestas[i].linea = linea}

\* the leg has a line and odds
LadoCompleto(prop, es_over) ==
    IF es_over THEN prop.over_line # None /\ prop.over_odds # None
    ELSE prop.under_line # None /\ prop.under_odds # None

\* the label of the prop has a column in the game log of the player, which
\* has a game at least
EstadisticaDisponible(prop) ==
    /\ Len(stats.logs[REGULAR_SEASON].rows) >= 1
    /\ MapearProp(prop.prop_name)
         \in create_combined_stats(stats.logs[REGULAR_SEASON]).columns

\* C30, first part: a complete leg with an available statistic and a game
\* has exactly one entry in the history of the run
UnaEntradaPorLado ==
    LoteHecho =>
        \A k \in DOMAIN locals.odds_data, es_over \in BOOLEAN :
            (LadoCompleto(locals.odds_data[k], es_over)
               /\ EstadisticaDisponible(locals.odds_data[k]))
                => Cardinality(EntradasDelLado(locals.odds_data[k], es_over)) = 1

\* some game of the log satisfies the leg
LadoCumplido(prop, es_over) ==
    LET d == create_combined_stats(stats.logs[REGULAR_SEASON])
        columna == MapearProp(prop.prop_name)
        linea == IF es_over THEN prop.over_line ELSE prop.under_line
    IN \E i \in DOMAIN d.rows :
          Cumple(d.rows[i][columna].v, UmbralLote(linea).v, es_over)

\* the first part of C30 for the legs that some game satisfies
UnaEntradaPorLadoCumplido ==
    LoteHecho =>
        \A k \in DOMAIN locals.odds_data, es_over \in BOOLEAN :
            (LadoCompleto(locals.odds_data[k], es_over)
               /\ EstadisticaDisponible(locals.odds_data[k])
               /\ LadoCumplido(locals.odds_data[k], es_over))
                => Cardinality(EntradasDelLado(locals.odds_data[k], es_over)) = 1

\* C30, second part: a leg without its line or its odds has no entry and
\* raises no error
LadoIncompletoSinEntrada ==
    LoteHecho =>
        /\ locals.errores = 0
        /\ \A k \in DOMAIN locals.odds_data, es_over \in BOOLEAN :
              ~LadoCompleto(locals.odds_data[k], es_over)
                => EntradasDelLado(locals.odds_data[k], es_over) = {}

\* C30, third part: the history after the run holds the entries of the run
SoloEntradasDelLote ==
    LoteHecho =>
        \A i \in DOMAIN locals.historial_apuestas :
            /\ locals.historial_apuestas[i].kind = "lote"
            /\ \E k \in DOMAIN locals.odds_data, es_over \in BOOLEAN :
                  i \in EntradasDelLado(locals.odds_data[k], es_over)

\* C30: in a batch run every complete leg of a loaded prop whose statistic
\* is available and that has a valid game gives exactly one entry of the
\* history, a probability of 0 included; a leg without line or odds gives no
\* entry and no error; the history holds only the entries of the run.
Claim_C30 == UnaEntradaPorLado /\ LadoIncompletoSinEntrada /\ SoloEntradasDelLote

====
